---- MODULE Spec2Model ----
(***************************************************************************)
(* A model of the NumBits n-dimensional array library.                     *)
(*                                                                         *)
(* The repository holds two ndarray class templates of the same name:      *)
(*   - include/numbits/core/ndarray.hpp: shape, strides and a buffer held  *)
(*     by std::shared_ptr (views share the buffer);                        *)
(*   - include/numbits/ndarray.hpp: a raw T* with an owns_data_ flag.      *)
(* A program is built against one of them; the variable "build" says       *)
(* which.  Sequences are 1-based here and 0-based in the source.           *)
(***************************************************************************)
EXTENDS Integers, Sequences, FiniteSets, TLC

VARIABLES pc, call, ret, build, arrs, heap, last

vars == <<pc, call, ret, build, arrs, heap, last>>

\* ------------------------------------------------------------- bounds
\* Largest rank and dimension of the shapes given to the shape functions.
MaxRank == 3
MaxDim == 3

\* ------------------------------------------------------------ helpers
Max(a, b) == IF a >= b THEN a ELSE b
Min(a, b) == IF a <= b THEN a ELSE b

\* All sequences over S of length 0..n.
SeqsUpTo(S, n) == UNION {[1..k -> S] : k \in 0..n}

\* The shape s left-padded with 1 to rank n.
PadLeft(s, n) == [i \in 1..n |-> IF i <= n - Len(s) THEN 1 ELSE s[i - (n - Len(s))]]

\* A result is either a value or the exception the call threw.
Ok(v) == [err |-> "none", val |-> v]
Err(kind) == [err |-> kind, val |-> <<>>]

\* ------------------------------------------------------ shape functions
\* utils.hpp compute_size: product of the dimensions, 1 for the empty shape.
RECURSIVE compute_size(_)
compute_size(shape) ==
    IF shape = <<>> THEN 1 ELSE Head(shape) * compute_size(Tail(shape))

\* utils.hpp compute_strides / ndarray::compute_strides: row-major strides.
RECURSIVE compute_strides(_)
compute_strides(shape) ==
    IF shape = <<>> THEN <<>>
    ELSE <<compute_size(Tail(shape))>> \o compute_strides(Tail(shape))

\* utils.hpp broadcast_shapes, written with the wrong alignment (from the
\* left instead of from the right).
broadcast_shapes_leftaligned(shape1, shape2) ==
    LET ndim == Max(Len(shape1), Len(shape2))
        dim1(i) == IF i <= Len(shape1) THEN shape1[i] ELSE 1
        dim2(i) == IF i <= Len(shape2) THEN shape2[i] ELSE 1
    IN  IF \E i \in 1..ndim : dim1(i) # dim2(i) /\ dim1(i) # 1 /\ dim2(i) # 1
        THEN Err("runtime_error")
        ELSE Ok([i \in 1..ndim |-> Max(dim1(i), dim2(i))])

\* utils.hpp broadcast_shapes: the loop runs i = 0..ndim-1 from the right;
\* dimN is shapeN[size - 1 - i] when i < size and 1 otherwise; the first
\* incompatible pair throws; result[ndim - 1 - i] = max(dim1, dim2).
broadcast_shapes(shape1, shape2) ==
    LET ndim == Max(Len(shape1), Len(shape2))
        dim1(i) == IF i < Len(shape1) THEN shape1[Len(shape1) - i] ELSE 1
        dim2(i) == IF i < Len(shape2) THEN shape2[Len(shape2) - i] ELSE 1
    IN  IF \E i \in 0..(ndim - 1) :
              dim1(i) # dim2(i) /\ dim1(i) # 1 /\ dim2(i) # 1
        THEN Err("runtime_error")
        ELSE Ok([j \in 1..ndim |-> Max(dim1(ndim - j), dim2(ndim - j))])

\* utils.hpp can_broadcast: true iff broadcast_shapes does not throw.
can_broadcast(shape1, shape2) == broadcast_shapes(shape1, shape2).err = "none"

\* core/ndarray.hpp ndarray::broadcast_shapes: the same loop, throwing
\* std::invalid_argument.
ndarray_broadcast_shapes(shape1, shape2) ==
    LET len1 == Len(shape1)
        len2 == Len(shape2)
        max_len == Max(len1, len2)
        dim1(i) == IF i >= len1 THEN 1 ELSE shape1[len1 - i]
        dim2(i) == IF i >= len2 THEN 1 ELSE shape2[len2 - i]
    IN  IF \E i \in 0..(max_len - 1) :
              dim1(i) # 1 /\ dim2(i) # 1 /\ dim1(i) # dim2(i)
        THEN Err("invalid_argument")
        ELSE Ok([j \in 1..max_len |-> Max(dim1(max_len - j), dim2(max_len - j))])

\* --------------------------------------------------------- array values
\* An array is its shape, its strides and the contents of its buffer.
\* core/ndarray.hpp init_from_shape and the (shape, values) constructor,
\* ndarray.hpp ndarray(shape, data): a fresh array is row-major over its data.
FreshArray(shape, data) ==
    [shape |-> shape, strides |-> compute_strides(shape), data |-> data]

\* The data 1, 2, ..., n: every element differs from every other and from
\* the default value 0.
Iota(n) == [i \in 1..n |-> i]

\* All multi-indices (0-based entries) of a shape.
RECURSIVE Indices(_)
Indices(shape) ==
    IF shape = <<>> THEN {<<>>}
    ELSE {<<i>> \o rest : i \in 0..(Head(shape) - 1), rest \in Indices(Tail(shape))}

\* utils.hpp flatten_index: sum of indices[i] * strides[i].
RECURSIVE flatten_index(_, _)
flatten_index(indices, strides) ==
    IF indices = <<>> THEN 0
    ELSE Head(indices) * Head(strides) + flatten_index(Tail(indices), Tail(strides))

\* The element of an array at a valid multi-index (operator() / at()).
Elem(A, idx) == A.data[flatten_index(idx, A.strides) + 1]

\* The zero-filled buffer of n elements (T{} / T{0}).
Zeros(n) == [i \in 1..n |-> 0]

\* ------------------------------------------------------------ broadcast
\* core/reshape.hpp broadcast_to, lines 236-248: the source offset of the
\* outer row "outer": coordinates are peeled off "temp" from axis 0 upwards,
\* over the axes 0..rank-2 of the target.
RECURSIVE bt_src_idx(_, _, _, _, _, _)
bt_src_idx(k, temp, acc, target_shape, orig_shape, strides) ==
    IF k > Len(target_shape) - 2 THEN acc
    ELSE LET coord == temp % target_shape[k + 1]
             align_offset == Len(target_shape) - Len(orig_shape)
             s_dim == orig_shape[(k - align_offset) + 1]
             s_coord == IF s_dim = 1 THEN 0 ELSE coord
             add == IF k >= align_offset
                    THEN s_coord * strides[(k - align_offset) + 1]
                    ELSE 0
         IN  bt_src_idx(k + 1, temp \div target_shape[k + 1], acc + add,
                        target_shape, orig_shape, strides)

\* core/reshape.hpp broadcast_to, lines 236-252: dst and src are the same
\* buffer (B was built over A.data_ptr()), so every row written is seen by
\* the rows read after it.
RECURSIVE bt_rows(_, _, _, _, _, _)
bt_rows(outer, outer_size, data, target_shape, orig_shape, strides) ==
    IF outer >= outer_size THEN data
    ELSE LET inner_dim == target_shape[Len(target_shape)]
             src_idx == bt_src_idx(0, outer, 0, target_shape, orig_shape, strides)
             v == data[src_idx + 1]
             written == [i \in 1..Len(data) |->
                            IF /\ i - 1 >= outer * inner_dim
                               /\ i - 1 < outer * inner_dim + inner_dim
                            THEN v ELSE data[i]]
         IN  bt_rows(outer + 1, outer_size, written, target_shape, orig_shape, strides)

\* core/reshape.hpp broadcast_to.  The result carries the returned array
\* and "src", the contents of A's buffer when the call ends.
broadcast_to(A, target_shape) ==
    LET orig_shape == A.shape
        align_offset == Len(target_shape) - Len(orig_shape)
        fail(kind) == [err |-> kind, val |-> <<>>, src |-> A.data]
    IN  IF target_shape = <<>> THEN fail("invalid_argument")
        ELSE IF \E i \in 1..Len(target_shape) : target_shape[i] = 0
        THEN fail("invalid_argument")
        ELSE IF Len(orig_shape) > Len(target_shape) THEN fail("invalid_argument")
        ELSE IF \E i \in 1..Len(orig_shape) :
                   orig_shape[i] # 1 /\ orig_shape[i] # target_shape[i + align_offset]
        THEN fail("invalid_argument")
        \* ndarray(shape, strides_ptr, data_ptr): the buffer must hold
        \* exactly product(target_shape) elements.
        ELSE IF Len(A.data) # compute_size(target_shape)
        THEN fail("invalid_argument")
        ELSE LET total_size == Len(A.data)
                 inner_dim == target_shape[Len(target_shape)]
                 outer_size == total_size \div inner_dim
                 dst == bt_rows(0, outer_size, A.data, target_shape,
                                orig_shape, A.strides)
             IN  [err |-> "none",
                  val |-> [shape |-> target_shape,
                           strides |-> compute_strides(target_shape),
                           data |-> dst],
                  src |-> dst]

\* broadcasting.hpp BroadcastIterator::get_value at the multi-index "cur" of
\* the target: an index on an axis of expanded size 1 is forced to 0 and the
\* offset is taken with the row-major strides of the expanded shape.
get_value(arr, target_shape, cur) ==
    LET offset == Len(target_shape) - Len(arr.shape)
        expanded_shape == [i \in 1..Len(target_shape) |->
                              IF i > offset THEN arr.shape[i - offset] ELSE 1]
        expanded_strides == compute_strides(expanded_shape)
        dim_index(i) == IF expanded_shape[i] = 1 THEN 0 ELSE cur[i]
    IN  arr.data[flatten_index([i \in 1..Len(target_shape) |-> dim_index(i)],
                               expanded_strides) + 1]

\* unravel_index without the "flat_idx %= strides[i]" step.
RECURSIVE unravel_index_noremainder(_, _, _)
unravel_index_noremainder(flat_idx, shape, strides) ==
    IF shape = <<>> THEN <<>>
    ELSE <<flat_idx \div Head(strides)>>
         \o unravel_index_noremainder(flat_idx, Tail(shape), Tail(strides))

\* utils.hpp unravel_index: indices[i] = flat / strides[i]; flat %= strides[i].
RECURSIVE unravel_index(_, _, _)
unravel_index(flat_idx, shape, strides) ==
    IF shape = <<>> THEN <<>>
    ELSE <<flat_idx \div Head(strides)>>
         \o unravel_index(flat_idx % Head(strides), Tail(shape), Tail(strides))

\* broadcasting.hpp broadcast_to: the result has the shape
\* broadcast_shapes(arr.shape, target_shape); element i is get_value at the
\* i-th multi-index in row-major order (increment() counts that way).
legacy_broadcast_to(arr, target_shape) ==
    LET bs == broadcast_shapes(arr.shape, target_shape)
    IN  IF bs.err # "none" THEN [err |-> bs.err, val |-> <<>>, src |-> arr.data]
        ELSE LET shape == bs.val
                 st == compute_strides(shape)
                 n == compute_size(shape)
             IN  [err |-> "none",
                  val |-> [shape |-> shape,
                           strides |-> st,
                           data |-> [i \in 1..n |->
                                      get_value(arr, shape,
                                                unravel_index(i - 1, shape, st))]],
                  src |-> arr.data]

\* core/ndarray.hpp: arrays of more than this many elements take the
\* "#pragma omp parallel for" branch.
ParallelThreshold == 10000

\* core/ndarray.hpp ndarray::broadcast_to (private): the array itself when
\* the shapes are equal; otherwise a zero-initialised array of the target
\* shape whose first arr.size() elements are arr's buffer (small arrays) or
\* whose element i is arr[i % arr.size()] (large arrays).
ndarray_broadcast_to(arr, target_shape) ==
    IF arr.shape = target_shape THEN arr
    ELSE LET n == compute_size(target_shape)
             m == Len(arr.data)
         IN  [shape |-> target_shape,
              strides |-> compute_strides(target_shape),
              data |-> IF n > ParallelThreshold
                       THEN [i \in 1..n |-> arr.data[((i - 1) % m) + 1]]
                       ELSE [i \in 1..n |-> IF i <= m THEN arr.data[i] ELSE 0]]

\* ------------------------------------------------------- real arithmetic
\* The element type T of the linear-algebra kernels is a floating-point
\* type.  Its values are modelled as exact fractions n/d in lowest terms
\* with d > 0: the arithmetic is that of the reals, without rounding.
RECURSIVE Gcd(_, _)
Gcd(a, b) == IF b = 0 THEN a ELSE Gcd(b, a % b)

Abs(x) == IF x < 0 THEN -x ELSE x

Rat(n, d) ==
    LET g == Gcd(Abs(n), Abs(d))
        s == IF d < 0 THEN -1 ELSE 1
    IN  [n |-> s * (n \div g), d |-> s * (d \div g)]

RatOf(i) == [n |-> i, d |-> 1]
RNeg(x) == [n |-> -x.n, d |-> x.d]
RAdd(x, y) ==
    LET g == Gcd(x.d, y.d)
    IN  Rat(x.n * (y.d \div g) + y.n * (x.d \div g), (x.d \div g) * y.d)
RSub(x, y) == RAdd(x, RNeg(y))
RMul(x, y) == Rat(x.n * y.n, x.d * y.d)
RDiv(x, y) == Rat(x.n * y.d, x.d * y.n)
RAbs(x) == [n |-> Abs(x.n), d |-> x.d]
RLess(x, y) == x.n * y.d < y.n * x.d

\* std::divides<T> on a floating-point T: x / 0 is an infinity with the
\* sign of x, written n/0 with n = 1 or -1, and 0 / 0 is NaN, written 0/0.
divides(x, y) ==
    IF y = 0 THEN [n |-> IF x > 0 THEN 1 ELSE IF x < 0 THEN -1 ELSE 0, d |-> 0]
    ELSE Rat(x, y)

\* ---------------------------------------------------------- elementwise
\* std::plus / std::minus / std::multiplies / std::divides.
ApplyOp(op, x, y) ==
    CASE op = "add" -> x + y
      [] op = "sub" -> x - y
      [] op = "mul" -> x * y
      [] op = "div" -> divides(x, y)

\* operations.hpp add / subtract / multiply (and operator+ - * through
\* them): broadcast both operands to broadcast_shapes(a, b), then
\* std::transform over the flat buffers.
elementwise(op, a, b) ==
    LET bs == broadcast_shapes(a.shape, b.shape)
    IN  IF bs.err # "none" THEN Err(bs.err)
        ELSE LET a_broadcast == legacy_broadcast_to(a, bs.val).val
                 b_broadcast == legacy_broadcast_to(b, bs.val).val
                 n == compute_size(bs.val)
             IN  Ok([shape |-> bs.val,
                     strides |-> compute_strides(bs.val),
                     data |-> [i \in 1..n |->
                                ApplyOp(op, a_broadcast.data[i], b_broadcast.data[i])]])

\* core/ndarray.hpp ndarray::element_wise_op(lhs, rhs, op), behind the
\* friend operators + - * / of the shared-buffer ndarray.
element_wise_op(op, lhs, rhs) ==
    LET bs == ndarray_broadcast_shapes(lhs.shape, rhs.shape)
    IN  IF bs.err # "none" THEN Err(bs.err)
        ELSE LET lhs_broadcast == ndarray_broadcast_to(lhs, bs.val)
                 rhs_broadcast == ndarray_broadcast_to(rhs, bs.val)
                 n == compute_size(bs.val)
             IN  Ok([shape |-> bs.val,
                     strides |-> compute_strides(bs.val),
                     data |-> [i \in 1..n |->
                                ApplyOp(op, lhs_broadcast.data[i], rhs_broadcast.data[i])]])

\* ops/arithmetic.hpp add / sub / mul: both operands must be 2-D and of the
\* same shape; C(i, j) = A(i, j) op B(i, j).
arithmetic(op, A, B) ==
    IF Len(A.shape) # 2 \/ Len(B.shape) # 2 THEN Err("invalid_argument")
    ELSE IF A.shape # B.shape THEN Err("invalid_argument")
    ELSE LET st == compute_strides(A.shape)
             n == compute_size(A.shape)
         IN  Ok([shape |-> A.shape,
                 strides |-> st,
                 data |-> [i \in 1..n |->
                            LET ij == unravel_index(i - 1, A.shape, st)
                            IN  ApplyOp(op, Elem(A, ij), Elem(B, ij))]])

\* core/ndarray.hpp ndarray::element_wise_op(lhs, T rhs, op), behind the
\* friend operators with a scalar on the right, and operations.hpp
\* divide_scalar and its siblings: op(lhs[i], rhs) over the flat buffer
\* into a fresh array of lhs's shape.
element_wise_op_scalar(op, lhs, rhs) ==
    LET n == compute_size(lhs.shape)
    IN  Ok([shape |-> lhs.shape,
            strides |-> compute_strides(lhs.shape),
            data |-> [i \in 1..n |-> ApplyOp(op, lhs.data[i], rhs)]])

\* ops/arithmetic.hpp div: as add / sub / mul, with the guard
\* "if (B(i, j) == T(0)) throw std::domain_error" before each quotient.
div(A, B) ==
    IF Len(A.shape) # 2 \/ Len(B.shape) # 2 THEN Err("invalid_argument")
    ELSE IF A.shape # B.shape THEN Err("invalid_argument")
    ELSE IF \E ij \in Indices(A.shape) : Elem(B, ij) = 0 THEN Err("domain_error")
    ELSE arithmetic("div", A, B)

\* ---------------------------------------------------------------- views
\* A function that returns an array either builds it over the argument's
\* buffer (a view: A.data_ptr() is handed to the constructor) or over a
\* buffer of its own.
Shared(r) == [err |-> r.err, val |-> r.val, alias |-> TRUE]
Owned(r) == [err |-> r.err, val |-> r.val, alias |-> FALSE]

HasZero(shape) == \E i \in 1..Len(shape) : shape[i] = 0

\* core/shape.hpp total_size: the product of the dimensions.
total_size(shape) == compute_size(shape)

\* core/ndarray.hpp ndarray(shape, data_ptr): row-major strides over an
\* existing buffer, which must hold exactly product(shape) elements.
ndarray_over(shape, data) ==
    IF HasZero(shape) THEN Err("invalid_argument")
    ELSE IF Len(data) # compute_size(shape) THEN Err("invalid_argument")
    ELSE Ok([shape |-> shape, strides |-> compute_strides(shape), data |-> data])

\* core/ndarray.hpp ndarray(shape, strides_ptr, data_ptr): the given strides
\* over an existing buffer.
ndarray_strided(shape, strides, data) ==
    IF HasZero(shape) THEN Err("invalid_argument")
    ELSE IF Len(data) # compute_size(shape) THEN Err("invalid_argument")
    ELSE IF Len(strides) # Len(shape) THEN Err("invalid_argument")
    ELSE Ok([shape |-> shape, strides |-> strides, data |-> data])

\* core/reshape.hpp reshape, returning a copy of the data instead of a view.
reshape_copying(A, new_shape) ==
    IF HasZero(new_shape) THEN Owned(Err("invalid_argument"))
    ELSE IF Len(A.data) # total_size(new_shape) THEN Owned(Err("invalid_argument"))
    ELSE Owned(ndarray_over(new_shape, A.data))

\* core/reshape.hpp reshape(A, new_shape).
reshape(A, new_shape) ==
    IF HasZero(new_shape) THEN Shared(Err("invalid_argument"))
    ELSE IF Len(A.data) # total_size(new_shape) THEN Shared(Err("invalid_argument"))
    ELSE Shared(ndarray_over(new_shape, A.data))

\* std::vector::insert of value 1 before position axis (0-based).
InsertAt(shape, axis) ==
    [i \in 1..(Len(shape) + 1) |->
        IF i <= axis THEN shape[i] ELSE IF i = axis + 1 THEN 1 ELSE shape[i - 1]]

\* std::vector::erase of position axis (0-based).
EraseAt(shape, axis) ==
    [i \in 1..(Len(shape) - 1) |-> IF i <= axis THEN shape[i] ELSE shape[i + 1]]

\* std::remove(shape, 1): the dimensions other than 1, in order.
RECURSIVE RemoveOnes(_)
RemoveOnes(shape) ==
    IF shape = <<>> THEN <<>>
    ELSE IF Head(shape) = 1 THEN RemoveOnes(Tail(shape))
    ELSE <<Head(shape)>> \o RemoveOnes(Tail(shape))

\* core/reshape.hpp expand_dims(A, axis).
expand_dims(A, axis) ==
    IF axis > Len(A.shape) THEN Shared(Err("invalid_argument"))
    ELSE Shared(ndarray_over(InsertAt(A.shape, axis), A.data))

\* core/reshape.hpp squeeze without the two new_shape.empty() tests.
squeeze_to_scalar(A, axis) ==
    IF axis >= 0
    THEN IF axis >= Len(A.shape) THEN Shared(Err("invalid_argument"))
         ELSE IF A.shape[axis + 1] # 1 THEN Shared(Err("invalid_argument"))
         ELSE Shared(ndarray_over(EraseAt(A.shape, axis), A.data))
    ELSE Shared(ndarray_over(RemoveOnes(A.shape), A.data))

\* core/reshape.hpp squeeze(A, axis); axis < 0 removes every size-1 axis.
squeeze(A, axis) ==
    IF axis >= 0
    THEN IF axis >= Len(A.shape) THEN Shared(Err("invalid_argument"))
         ELSE IF A.shape[axis + 1] # 1 THEN Shared(Err("invalid_argument"))
         ELSE IF EraseAt(A.shape, axis) = <<>> THEN Shared(Err("invalid_argument"))
         ELSE Shared(ndarray_over(EraseAt(A.shape, axis), A.data))
    ELSE IF RemoveOnes(A.shape) = <<>> THEN Shared(Err("invalid_argument"))
         ELSE Shared(ndarray_over(RemoveOnes(A.shape), A.data))

\* core/ndarray.hpp transpose(arr, axes), giving the result row-major
\* strides of its new shape instead of the permuted strides.
transpose_rowmajor(arr, axes) ==
    IF Len(axes) # Len(arr.shape) THEN Shared(Err("invalid_argument"))
    ELSE IF \/ \E i \in 1..Len(axes) : axes[i] >= Len(arr.shape)
            \/ \E i, j \in 1..Len(axes) : i < j /\ axes[i] = axes[j]
    THEN Shared(Err("invalid_argument"))
    ELSE Shared(ndarray_over([i \in 1..Len(axes) |-> arr.shape[axes[i] + 1]],
                             arr.data))

\* core/ndarray.hpp transpose without the used[ax] test for a repeated
\* axis.
transpose_norepeat(arr, axes) ==
    IF Len(axes) # Len(arr.shape) THEN Shared(Err("invalid_argument"))
    ELSE IF \E i \in 1..Len(axes) : axes[i] >= Len(arr.shape)
    THEN Shared(Err("invalid_argument"))
    ELSE Shared(ndarray_strided([i \in 1..Len(axes) |-> arr.shape[axes[i] + 1]],
                                [i \in 1..Len(axes) |-> arr.strides[axes[i] + 1]],
                                arr.data))

\* core/ndarray.hpp transpose(arr, axes): axes (0-based) must be a
\* permutation; new_shape[i] = shape[axes[i]], new_strides[i] =
\* strides[axes[i]], over the same buffer.
transpose(arr, axes) ==
    IF Len(axes) # Len(arr.shape) THEN Shared(Err("invalid_argument"))
    ELSE IF \/ \E i \in 1..Len(axes) : axes[i] >= Len(arr.shape)
            \/ \E i, j \in 1..Len(axes) : i < j /\ axes[i] = axes[j]
    THEN Shared(Err("invalid_argument"))
    ELSE Shared(ndarray_strided([i \in 1..Len(axes) |-> arr.shape[axes[i] + 1]],
                                [i \in 1..Len(axes) |-> arr.strides[axes[i] + 1]],
                                arr.data))

\* core/ndarray.hpp ravel(): the 1-D view {size()} with stride 1.
ravel(A) == Shared(ndarray_strided(<<Len(A.data)>>, <<1>>, A.data))

\* core/reshape.hpp transpose(A) and linear_algebra.hpp transpose(arr): a
\* new array with B(j, i) = A(i, j); 2-D only.
transpose2d(A, errkind) ==
    IF Len(A.shape) # 2 THEN Owned(Err(errkind))
    ELSE LET shape == <<A.shape[2], A.shape[1]>>
             st == compute_strides(shape)
         IN  Owned(Ok([shape |-> shape,
                       strides |-> st,
                       data |-> [k \in 1..compute_size(shape) |->
                                  LET ji == unravel_index(k - 1, shape, st)
                                  IN  Elem(A, <<ji[2], ji[1]>>)]]))

\* ndarray.hpp ndarray::reshape(new_shape): "Produces a deep copy; does not
\* reuse original memory".  size_ is compute_size(shape_) for every array
\* the constructors make.
member_reshape(A, new_shape) ==
    IF compute_size(new_shape) # compute_size(A.shape) THEN Owned(Err("runtime_error"))
    ELSE Owned(Ok([shape |-> new_shape,
                   strides |-> compute_strides(new_shape),
                   data |-> A.data]))

\* Element access that checks the rank but not the bounds of the indices.
at_unchecked(A, indices, rankerr) ==
    IF Len(indices) # Len(A.shape) THEN [err |-> rankerr, off |-> 0]
    ELSE [err |-> "none", off |-> flatten_index(indices, A.strides)]

\* core/ndarray.hpp operator()(indices...) and ndarray.hpp at(indices): the
\* rank check, then the bounds check of every index, then the offset
\* sum(index[i] * stride[i]).
at(A, indices, rankerr) ==
    IF Len(indices) # Len(A.shape) THEN [err |-> rankerr, off |-> 0]
    ELSE IF \E i \in 1..Len(indices) : indices[i] >= A.shape[i]
    THEN [err |-> "out_of_range", off |-> 0]
    ELSE [err |-> "none", off |-> flatten_index(indices, A.strides)]

\* -------------------------------------------------------------- kernels
\* core/reshape.hpp slice(A, row_start, row_end, col_start, col_end): a new
\* 2-D array holding rows [row_start, row_end) and columns [col_start,
\* col_end); ndarray({rows, cols}) rejects a zero dimension.
slice(A, row_start, row_end, col_start, col_end) ==
    IF Len(A.shape) # 2 THEN Owned(Err("invalid_argument"))
    ELSE IF row_start > row_end \/ col_start > col_end
    THEN Owned(Err("invalid_argument"))
    ELSE IF row_end > A.shape[1] \/ col_end > A.shape[2]
    THEN Owned(Err("out_of_range"))
    ELSE LET rows == row_end - row_start
             cols == col_end - col_start
         IN  IF rows = 0 \/ cols = 0 THEN Owned(Err("invalid_argument"))
             ELSE Owned(Ok([shape |-> <<rows, cols>>,
                            strides |-> <<cols, 1>>,
                            data |-> [k \in 1..(rows * cols) |->
                                       Elem(A, <<((k - 1) \div cols) + row_start,
                                                 ((k - 1) % cols) + col_start>>)]]))

\* sum over k in lo..hi of A(i, k) * B(k, j).
RECURSIVE dot_sum(_, _, _, _, _, _)
dot_sum(A, B, i, j, lo, hi) ==
    IF lo > hi THEN 0
    ELSE Elem(A, <<i, lo>>) * Elem(B, <<lo, j>>) + dot_sum(A, B, i, j, lo + 1, hi)

\* dot(A, B) with the inner loop starting at k = 1.
dot_skipfirst(A, B) ==
    IF Len(A.shape) # 2 \/ Len(B.shape) # 2 THEN Owned(Err("invalid_argument"))
    ELSE IF A.shape[2] # B.shape[1] THEN Owned(Err("invalid_argument"))
    ELSE LET n == A.shape[1]
             p == A.shape[2]
             m == B.shape[2]
         IN  Owned(Ok([shape |-> <<n, m>>,
                       strides |-> <<m, 1>>,
                       data |-> [k \in 1..(n * m) |->
                                  dot_sum(A, B, (k - 1) \div m, (k - 1) % m,
                                          1, p - 1)]]))

\* linalg/matrix.hpp dot(A, B), which matmul(A, B) returns.
dot(A, B) ==
    IF Len(A.shape) # 2 \/ Len(B.shape) # 2 THEN Owned(Err("invalid_argument"))
    ELSE IF A.shape[2] # B.shape[1] THEN Owned(Err("invalid_argument"))
    ELSE LET n == A.shape[1]
             p == A.shape[2]
             m == B.shape[2]
         IN  Owned(Ok([shape |-> <<n, m>>,
                       strides |-> <<m, 1>>,
                       data |-> [k \in 1..(n * m) |->
                                  dot_sum(A, B, (k - 1) \div m, (k - 1) % m,
                                          0, p - 1)]]))

\* linear_algebra.hpp matmul(a, b): result.at({i, j}) = sum over k of
\* a.at({i, k}) * b.at({k, j}).
legacy_matmul(a, b) ==
    IF Len(a.shape) # 2 \/ Len(b.shape) # 2 THEN Owned(Err("runtime_error"))
    ELSE IF a.shape[2] # b.shape[1] THEN Owned(Err("runtime_error"))
    ELSE LET m == a.shape[1]
             n == a.shape[2]
             p == b.shape[2]
         IN  Owned(Ok([shape |-> <<m, p>>,
                       strides |-> <<p, 1>>,
                       data |-> [k \in 1..(m * p) |->
                                  dot_sum(a, b, (k - 1) \div p, (k - 1) % p,
                                          0, n - 1)]]))

\* std::numeric_limits<T>::epsilon() for T = float, 2^-23.
Epsilon == Rat(1, 2^23)

\* std::abs(x) < std::numeric_limits<T>::epsilon() * 10, that is
\* |n| * 2^22 < 5 * d, computed without leaving the integers of the model.
BelowEpsilon(x) == Abs(x.n) <= (5 * x.d - 1) \div (Epsilon.d \div 2)

\* An array of integers as an array of T.
AsReal(A) == [A EXCEPT !.data = [i \in DOMAIN A.data |-> RatOf(A.data[i])]]

\* A square working matrix (LU, aug, ...) is a function of <<i, j>>.
MatrixOf(A, n, m) ==
    [ij \in (0..(n - 1)) \X (0..(m - 1)) |-> Elem(A, <<ij[1], ij[2]>>)]

SwapRows(M, r1, r2) ==
    [ij \in DOMAIN M |->
        IF ij[1] = r1 THEN M[<<r2, ij[2]>>]
        ELSE IF ij[1] = r2 THEN M[<<r1, ij[2]>>]
        ELSE M[ij]]

\* The pivot search of det / inv: the first row i in k..n-1 whose
\* |M(i, k)| is not exceeded by a later row's ("abs_val > max_val").
RECURSIVE FindPivot(_, _, _, _, _)
FindPivot(M, k, n, i, pivot) ==
    IF i >= n THEN pivot
    ELSE IF RLess(RAbs(M[<<pivot, k>>]), RAbs(M[<<i, k>>]))
         THEN FindPivot(M, k, n, i + 1, i)
         ELSE FindPivot(M, k, n, i + 1, pivot)

\* linalg/matrix.hpp det, the loop over k: pivot search, row swap,
\* singularity test, elimination of column k below the diagonal (the
\* entries of column k itself are left as they are), det_value *= LU(k, k).
\* Yields the product of the pivots and the number of swaps, or zero
\* = TRUE when a pivot failed the singularity test.
RECURSIVE det_lu(_, _, _, _, _)
det_lu(LU, k, n, det_value, num_swaps) ==
    IF k >= n THEN [zero |-> FALSE, det_value |-> det_value, num_swaps |-> num_swaps]
    ELSE LET pivot == FindPivot(LU, k, n, k + 1, k)
             swapped == IF pivot # k THEN SwapRows(LU, k, pivot) ELSE LU
             swaps == IF pivot # k THEN num_swaps + 1 ELSE num_swaps
         IN  IF BelowEpsilon(swapped[<<k, k>>])
             THEN [zero |-> TRUE, det_value |-> RatOf(0), num_swaps |-> swaps]
             ELSE LET elim ==
                        [ij \in DOMAIN swapped |->
                            IF ij[1] > k /\ ij[2] > k
                            THEN RSub(swapped[ij],
                                      RMul(RDiv(swapped[<<ij[1], k>>],
                                                swapped[<<k, k>>]),
                                           swapped[<<k, ij[2]>>]))
                            ELSE swapped[ij]]
                  IN  det_lu(elim, k + 1, n,
                             RMul(det_value, elim[<<k, k>>]), swaps)

\* det(A) without the sign of the row swaps.
det_unsigned(A) ==
    IF Len(A.shape) # 2 THEN Err("invalid_argument")
    ELSE IF A.shape[1] # A.shape[2] THEN Err("invalid_argument")
    ELSE IF A.shape[1] = 1 THEN Ok(Elem(A, <<0, 0>>))
    ELSE IF A.shape[1] = 2
    THEN Ok(RSub(RMul(Elem(A, <<0, 0>>), Elem(A, <<1, 1>>)),
                 RMul(Elem(A, <<0, 1>>), Elem(A, <<1, 0>>))))
    ELSE LET n == A.shape[1]
             r == det_lu(MatrixOf(A, n, n), 0, n, RatOf(1), 0)
         IN  Ok(r.det_value)

\* linalg/matrix.hpp det(A): n = 1 and n = 2 are computed directly from
\* the elements of A, larger matrices by LU decomposition with partial
\* pivoting.
det(A) ==
    IF Len(A.shape) # 2 THEN Err("invalid_argument")
    ELSE IF A.shape[1] # A.shape[2] THEN Err("invalid_argument")
    ELSE IF A.shape[1] = 1 THEN Ok(Elem(A, <<0, 0>>))
    ELSE IF A.shape[1] = 2
    THEN Ok(RSub(RMul(Elem(A, <<0, 0>>), Elem(A, <<1, 1>>)),
                 RMul(Elem(A, <<0, 1>>), Elem(A, <<1, 0>>))))
    ELSE LET n == A.shape[1]
             r == det_lu(MatrixOf(A, n, n), 0, n, RatOf(1), 0)
         IN  IF r.zero THEN Ok(RatOf(0))
             ELSE IF r.num_swaps % 2 = 0 THEN Ok(r.det_value)
             ELSE Ok(RNeg(r.det_value))

\* linalg/matrix.hpp inv, the body of one Gauss-Jordan step after the
\* pivot has been accepted: the pivot row k is divided by the pivot and
\* subtracted, factor times, from every other row, over all m columns.
gj_eliminate_below(aug, k, n) ==
    LET pivot_val == aug[<<k, k>>]
        scaled == [ij \in DOMAIN aug |->
                     IF ij[1] = k THEN RDiv(aug[ij], pivot_val) ELSE aug[ij]]
    IN  [ij \in DOMAIN aug |->
            IF ij[1] > k
            THEN RSub(scaled[ij], RMul(scaled[<<ij[1], k>>], scaled[<<k, ij[2]>>]))
            ELSE scaled[ij]]

gj_eliminate(aug, k, n) ==
    LET pivot_val == aug[<<k, k>>]
        scaled == [ij \in DOMAIN aug |->
                     IF ij[1] = k THEN RDiv(aug[ij], pivot_val) ELSE aug[ij]]
    IN  [ij \in DOMAIN aug |->
            IF ij[1] # k
            THEN RSub(scaled[ij], RMul(scaled[<<ij[1], k>>], scaled[<<k, ij[2]>>]))
            ELSE scaled[ij]]

\* The loop over k of inv: pivot search, row swap, singularity test, step.
RECURSIVE inv_loop(_, _, _)
inv_loop(aug, k, n) ==
    IF k >= n THEN Ok(aug)
    ELSE LET pivot == FindPivot(aug, k, n, k + 1, k)
             swapped == IF pivot # k THEN SwapRows(aug, k, pivot) ELSE aug
         IN  IF BelowEpsilon(swapped[<<k, k>>]) THEN Err("runtime_error")
             ELSE inv_loop(gj_eliminate(swapped, k, n), k + 1, n)

\* The augmented matrix [A | I].
Augmented(A, n) ==
    [ij \in (0..(n - 1)) \X (0..(2 * n - 1)) |->
        IF ij[2] < n THEN Elem(A, <<ij[1], ij[2]>>)
        ELSE IF ij[2] = n + ij[1] THEN RatOf(1) ELSE RatOf(0)]

\* The right half of the augmented matrix as an n x n array.
RightHalf(aug, n) ==
    FreshArray(<<n, n>>,
               [i \in 1..(n * n) |-> aug[<<(i - 1) \div n, n + ((i - 1) % n)>>]])

\* linalg/matrix.hpp inv(A).
inv(A) ==
    IF Len(A.shape) # 2 THEN Err("invalid_argument")
    ELSE IF A.shape[1] # A.shape[2] THEN Err("invalid_argument")
    ELSE LET n == A.shape[1]
             r == inv_loop(Augmented(A, n), 0, n)
         IN  IF r.err # "none" THEN r ELSE Ok(RightHalf(r.val, n))

\* std::abs(x) < TOL with TOL = 1e-10 (linear_algebra.hpp).  The
\* denominators of the model's values are below 2^31 < 10^10, so a
\* non-zero value is never below TOL.
BelowTOL(x) == x.n = 0

\* linear_algebra.hpp inverse(A), the loop over i on the pair (mat, inv)
\* held side by side as [mat | inv]: the singularity test comes before
\* the swap, on the pivot the search found.
RECURSIVE inverse_loop(_, _, _)
inverse_loop(aug, i, n) ==
    IF i >= n THEN Ok(aug)
    ELSE LET max_row == FindPivot(aug, i, n, i + 1, i)
         IN  IF BelowTOL(aug[<<max_row, i>>]) THEN Err("runtime_error")
             ELSE LET swapped == IF max_row # i THEN SwapRows(aug, i, max_row)
                                 ELSE aug
                  IN  inverse_loop(gj_eliminate(swapped, i, n), i + 1, n)

\* linear_algebra.hpp inverse(A).
inverse(A) ==
    IF Len(A.shape) # 2 \/ A.shape[1] # A.shape[Len(A.shape)]
    THEN Err("runtime_error")
    ELSE LET n == A.shape[1]
             r == inverse_loop(Augmented(A, n), 0, n)
         IN  IF r.err # "none" THEN r ELSE Ok(RightHalf(r.val, n))

\* ------------------------------------------------------------ reduction
\* The element type of the reductions is taken to be a 16-bit integer:
\* std::numeric_limits<T>::lowest() and max().
TLowest == -(2^15)
TMax == 2^15 - 1

\* The operator and the identity sum_axis / max_axis / min_axis hand to
\* reduce_axis.
ReduceOp(name, a, b) ==
    CASE name = "sum_axis" -> a + b
      [] name = "max_axis" -> Max(a, b)
      [] name = "min_axis" -> Min(a, b)

ReduceInit(name) ==
    CASE name = "sum_axis" -> 0
      [] name = "max_axis" -> TLowest
      [] name = "min_axis" -> TMax

\* result = init(); for v in values: result = op(result, v).
RECURSIVE Fold(_, _, _)
Fold(name, acc, values) ==
    IF values = <<>> THEN acc
    ELSE Fold(name, ReduceOp(name, acc, Head(values)), Tail(values))

\* The position of an outer multi-index in the order reduce_axis visits
\* them: the first index runs fastest.
RECURSIVE VisitOrder(_, _)
VisitOrder(indices, shape) ==
    IF indices = <<>> THEN 0
    ELSE Head(indices) + Head(shape) * VisitOrder(Tail(indices), Tail(shape))

\* ops/reduction.hpp reduce_axis(A, axis, op, init).  In the general case
\* result_flat_idx, computed from A's strides without the axis, is both
\* the base offset into A's buffer and the flat index result[...] is
\* written at; operator[] throws out_of_range beyond the result's buffer.
reduce_axis(A, axis, name) ==
    IF compute_size(A.shape) = 0 THEN Err("domain_error")
    ELSE IF axis = -1
    THEN Ok(FreshArray(<<1>>, <<Fold(name, ReduceInit(name), A.data)>>))
    ELSE IF axis < 0 \/ axis >= Len(A.shape) THEN Err("invalid_argument")
    ELSE LET new_shape == EraseAt(A.shape, axis)
             outer_strides == EraseAt(A.strides, axis)
             axis_size == A.shape[axis + 1]
             axis_stride == A.strides[axis + 1]
             size == compute_size(new_shape)
             val(indices) ==
                 Fold(name, ReduceInit(name),
                      [i \in 1..axis_size |->
                          A.data[flatten_index(indices, outer_strides)
                                 + (i - 1) * axis_stride + 1]])
             writers(f) ==
                 {indices \in Indices(new_shape) :
                     flatten_index(indices, outer_strides) = f}
             lastw(f) ==
                 CHOOSE indices \in writers(f) :
                     \A other \in writers(f) :
                         VisitOrder(other, new_shape) <= VisitOrder(indices, new_shape)
         IN  IF new_shape = <<>>
             THEN Ok(FreshArray(<<1>>, <<Fold(name, ReduceInit(name), A.data)>>))
             ELSE IF \E indices \in Indices(new_shape) :
                        flatten_index(indices, outer_strides) >= size
             THEN Err("out_of_range")
             ELSE Ok(FreshArray(new_shape,
                        [k \in 1..size |->
                            IF writers(k - 1) = {} THEN 0
                            ELSE val(lastw(k - 1))]))

\* --------------------------------------------- specification SpecShapes
\* The shape functions applied to every pair of bounded shapes.
ShapeInputs == SeqsUpTo(1..MaxDim, MaxRank)

NoCall == [op |-> "none"]
NoRet == [op |-> "none"]

IdleHeap ==
    /\ build = "core"
    /\ arrs = <<>>
    /\ heap = <<>>
    /\ last = [op |-> "none"]

InitShapes ==
    /\ pc = "call"
    /\ call \in [op : {"broadcast_shapes"}, s1 : ShapeInputs, s2 : ShapeInputs]
    /\ ret = NoRet
    /\ IdleHeap

DoBroadcastShapes ==
    /\ pc = "call"
    /\ call.op = "broadcast_shapes"
    /\ ret' = [op |-> "broadcast_shapes",
               fwd |-> broadcast_shapes(call.s1, call.s2),
               rev |-> broadcast_shapes(call.s2, call.s1),
               can |-> can_broadcast(call.s1, call.s2),
               core |-> ndarray_broadcast_shapes(call.s1, call.s2)]
    /\ pc' = "done"
    /\ UNCHANGED <<call, build, arrs, heap, last>>

NextShapes == DoBroadcastShapes

SpecShapes == InitShapes /\ [][NextShapes]_vars

\* ------------------------------------------ specification SpecBroadcast
\* broadcast_to and the elementwise operations applied to fresh arrays of
\* every bounded shape.
BMaxRank == 2
BMaxDim == 3

BShapes == SeqsUpTo(1..BMaxDim, BMaxRank)

\* A fresh array of the shape, holding 1..n.
IotaArray(shape) == FreshArray(shape, Iota(compute_size(shape)))

\* The second operand holds 10, 20, ..., so that x op y tells x from y.
TensArray(shape) ==
    FreshArray(shape, [i \in 1..compute_size(shape) |-> 10 * i])

InitBroadcast ==
    /\ pc = "call"
    /\ \/ call \in [op : {"broadcast_to"}, impl : {"core", "legacy"},
                    A : {IotaArray(s) : s \in BShapes}, S : BShapes]
       \/ call \in [op : {"add", "sub", "mul"},
                    impl : {"operations", "operator", "arithmetic"},
                    A : {IotaArray(s) : s \in BShapes},
                    B : {TensArray(s) : s \in BShapes}]
    /\ ret = NoRet
    /\ IdleHeap

DoBroadcastTo ==
    /\ pc = "call"
    /\ call.op = "broadcast_to"
    /\ ret' = IF call.impl = "core"
              THEN broadcast_to(call.A, call.S)
              ELSE legacy_broadcast_to(call.A, call.S)
    /\ pc' = "done"
    /\ UNCHANGED <<call, build, arrs, heap, last>>

DoElementwise ==
    /\ pc = "call"
    /\ call.op \in {"add", "sub", "mul"}
    /\ ret' = CASE call.impl = "operations" -> elementwise(call.op, call.A, call.B)
                [] call.impl = "operator" -> element_wise_op(call.op, call.A, call.B)
                [] call.impl = "arithmetic" -> arithmetic(call.op, call.A, call.B)
    /\ pc' = "done"
    /\ UNCHANGED <<call, build, arrs, heap, last>>

NextBroadcast == DoBroadcastTo \/ DoElementwise

SpecBroadcast == InitBroadcast /\ [][NextBroadcast]_vars

\* -------------------------------------------------------------- claims
Compatible(s1, s2) ==
    LET n == Max(Len(s1), Len(s2))
    IN  \A i \in 1..n :
          \/ PadLeft(s1, n)[i] = PadLeft(s2, n)[i]
          \/ PadLeft(s1, n)[i] = 1
          \/ PadLeft(s2, n)[i] = 1

\* C6: broadcast_shapes(s1, s2) right-aligns the shapes, pads the shorter
\* with leading 1s and returns, for compatible shapes, the shape of rank
\* max(rank s1, rank s2) holding the pairwise maxima; it fails iff some
\* aligned pair differs with neither side 1; the result is the same for
\* (s2, s1); can_broadcast is true exactly when it does not fail.  The
\* same holds of ndarray::broadcast_shapes.
C6_BroadcastShapes ==
    (pc = "done" /\ ret.op = "broadcast_shapes") =>
        LET s1 == call.s1
            s2 == call.s2
            n == Max(Len(s1), Len(s2))
            want == [i \in 1..n |-> Max(PadLeft(s1, n)[i], PadLeft(s2, n)[i])]
        IN  /\ (ret.fwd.err = "none") <=> Compatible(s1, s2)
            /\ (ret.core.err = "none") <=> Compatible(s1, s2)
            /\ ret.can <=> Compatible(s1, s2)
            /\ Compatible(s1, s2) =>
                 /\ ret.fwd.val = want
                 /\ Len(ret.fwd.val) = n
                 /\ ret.core.val = want
            /\ ret.rev = ret.fwd

\* C6 witness: a pair of different ranks was broadcast to a shape that is
\* neither argument, and an incompatible pair was rejected.
C6_Witness ==
    /\ pc = "done"
    /\ ret.op = "broadcast_shapes"
    /\ ret.fwd.err = "none"
    /\ Len(call.s1) < Len(call.s2)
    /\ ret.fwd.val # call.s1
    /\ ret.fwd.val # call.s2

\* The source coordinate of output coordinate idx: min(i, s - 1) on every
\* axis, s the source shape left-padded with 1; the padded axes are dropped.
MapIndex(idx, src_shape) ==
    LET n == Len(idx)
        padded == PadLeft(src_shape, n)
        off == n - Len(src_shape)
    IN  [i \in 1..Len(src_shape) |-> Min(idx[i + off], padded[i + off] - 1)]

\* Shapes of arrays are non-empty sequences of positive dimensions (spec,
\* data model); the claims about broadcast_to are stated over those.
ProperCall == Len(call.A.shape) >= 1 /\ Len(call.S) >= 1

\* C1: whenever broadcast_to(A, S) returns, the element of the result at
\* every output coordinate equals the element of A (as it was passed in) at
\* the coordinate min(i, s - 1) on every axis.
C1_BroadcastElements ==
    (pc = "done" /\ call.op = "broadcast_to" /\ ProperCall /\ ret.err = "none") =>
        /\ Len(ret.val.shape) >= Len(call.A.shape)
        /\ \A idx \in Indices(ret.val.shape) :
             Elem(ret.val, idx) = Elem(call.A, MapIndex(idx, call.A.shape))

\* C5: broadcast_to(A, S) succeeds exactly when rank(S) >= rank(A) and
\* every source dimension, right-aligned against S, is 1 or equals the
\* target dimension; on success the result has shape S.
BroadcastableTo(src_shape, S) ==
    /\ Len(S) >= Len(src_shape)
    /\ \A i \in 1..Len(src_shape) :
         \/ src_shape[i] = 1
         \/ src_shape[i] = S[i + (Len(S) - Len(src_shape))]

C5_BroadcastToSucceeds ==
    (pc = "done" /\ call.op = "broadcast_to" /\ ProperCall) =>
        /\ (ret.err = "none") <=> BroadcastableTo(call.A.shape, call.S)
        /\ (ret.err = "none") => ret.val.shape = call.S

\* C4: every binary elementwise operation on two broadcast-compatible
\* arrays returns an array of shape broadcast_shapes(A.shape, B.shape) whose
\* element at every output index is op(a, b), a and b the operands'
\* elements at the broadcast-mapped index.  Stated of operations.hpp
\* add / subtract / multiply and of the operators of core/ndarray.hpp.
C4_Elementwise ==
    (pc = "done" /\ call.op \in {"add", "sub", "mul"}
       /\ call.impl \in {"operations", "operator"}
       /\ Compatible(call.A.shape, call.B.shape)) =>
        LET n == Max(Len(call.A.shape), Len(call.B.shape))
            want == [i \in 1..n |-> Max(PadLeft(call.A.shape, n)[i],
                                        PadLeft(call.B.shape, n)[i])]
        IN  /\ ret.err = "none"
            /\ ret.val.shape = want
            /\ \A idx \in Indices(want) :
                 Elem(ret.val, idx) =
                     ApplyOp(call.op,
                             Elem(call.A, MapIndex(idx, call.A.shape)),
                             Elem(call.B, MapIndex(idx, call.B.shape)))

\* ---------------------------------------------- specification SpecViews
\* One call of a view derivation followed by the derivation that should
\* undo it.  The argument is a freshly created array or a transposed view
\* of one, so that arrays with non-row-major strides are among the inputs.
VMaxRank == 3
VMaxDim == 2
VMaxElems == 8

VShapes ==
    {s \in SeqsUpTo(1..VMaxDim, VMaxRank) :
        Len(s) >= 1 /\ compute_size(s) <= VMaxElems}

\* The permutations of the axes 0..n-1, as the axes argument of transpose.
Perms(n) ==
    {p \in [1..n -> 0..(n - 1)] : \A i, j \in 1..n : i # j => p[i] # p[j]}

IdentityPerm(n) == [i \in 1..n |-> i - 1]

InversePerm(p) ==
    [i \in 1..Len(p) |-> (CHOOSE j \in 1..Len(p) : p[j] = i - 1) - 1]

\* The array of shape s holding 1, 2, ... in row-major order, seen through
\* the axis permutation q: a fresh array when q is the identity.
PermutedView(s, q) ==
    [shape |-> [i \in 1..Len(s) |-> s[q[i] + 1]],
     strides |-> [i \in 1..Len(s) |-> compute_strides(s)[q[i] + 1]],
     data |-> Iota(compute_size(s))]

ViewInputs ==
    UNION {{PermutedView(s, q) : q \in Perms(Len(s))} : s \in VShapes}

InitViews ==
    /\ pc = "call"
    /\ call \in
         {[op |-> "reshape", A |-> v.A, S2 |-> v.S2] :
             v \in UNION {{[A |-> A, S2 |-> S2] :
                             S2 \in {s \in VShapes :
                                       compute_size(s) = Len(A.data)}} :
                            A \in ViewInputs}}
         \cup {[op |-> "transpose", A |-> v.A, p |-> v.p] :
             v \in UNION {{[A |-> A, p |-> p] : p \in Perms(Len(A.shape))} :
                            A \in ViewInputs}}
         \cup {[op |-> "transpose2d", impl |-> impl, A |-> A] :
             impl \in {"core", "legacy"},
             A \in {B \in ViewInputs : Len(B.shape) = 2}}
    /\ ret = NoRet
    /\ IdleHeap

\* D = reshape(A, S2); reshape(D, A.shape()).
DoReshapeRoundTrip ==
    /\ pc = "call"
    /\ call.op = "reshape"
    /\ LET mid == reshape(call.A, call.S2)
       IN  ret' = [op |-> "reshape", mid |-> mid,
                   back |-> IF mid.err = "none"
                            THEN reshape(mid.val, call.A.shape)
                            ELSE mid]
    /\ pc' = "done"
    /\ UNCHANGED <<call, build, arrs, heap, last>>

\* D = transpose(A, p); transpose(D, inverse(p)).
DoTransposeRoundTrip ==
    /\ pc = "call"
    /\ call.op = "transpose"
    /\ LET mid == transpose(call.A, call.p)
       IN  ret' = [op |-> "transpose", mid |-> mid,
                   back |-> IF mid.err = "none"
                            THEN transpose(mid.val, InversePerm(call.p))
                            ELSE mid]
    /\ pc' = "done"
    /\ UNCHANGED <<call, build, arrs, heap, last>>

\* transpose(transpose(A)) with the copying 2-D transpose of either header.
DoTransposeTwice ==
    /\ pc = "call"
    /\ call.op = "transpose2d"
    /\ LET errkind == IF call.impl = "core" THEN "invalid_argument"
                      ELSE "runtime_error"
           mid == transpose2d(call.A, errkind)
       IN  ret' = [op |-> "transpose2d", mid |-> mid,
                   back |-> IF mid.err = "none"
                            THEN transpose2d(mid.val, errkind)
                            ELSE mid]
    /\ pc' = "done"
    /\ UNCHANGED <<call, build, arrs, heap, last>>

NextViews == DoReshapeRoundTrip \/ DoTransposeRoundTrip \/ DoTransposeTwice

SpecViews == InitViews /\ [][NextViews]_vars

\* Two arrays are equal as arrays: same shape, same element at every index.
SameArray(X, Y) ==
    /\ X.shape = Y.shape
    /\ \A idx \in Indices(X.shape) : Elem(X, idx) = Elem(Y, idx)

\* C9: for every array A, freshly created or itself a view, and every shape
\* S2 with product(S2) = A.size(), reshape(reshape(A, S2), A.shape())
\* succeeds, has A's shape and has A's element at every multi-index.
C9_ReshapeRoundTrip ==
    (/\ pc = "done"
     /\ call.op = "reshape"
     /\ compute_size(call.S2) = Len(call.A.data))
    => /\ ret.back.err = "none"
       /\ SameArray(ret.back.val, call.A)

\* C10: for every array A and every permutation p of its axes,
\* transpose(transpose(A, p), inverse(p)) succeeds, has A's shape and has
\* A's element at every multi-index; transposing a 2-D array twice with the
\* copying transpose gives back the original array as well.
C10_TransposeRoundTrip ==
    (/\ pc = "done"
     /\ call.op \in {"transpose", "transpose2d"})
    => /\ ret.back.err = "none"
       /\ SameArray(ret.back.val, call.A)

\* A transposed view of a 2x2 (or larger) array is transposed by a
\* permutation that is not the identity, and back.
C10_Witness ==
    /\ pc = "done"
    /\ call.op = "transpose"
    /\ call.p # IdentityPerm(Len(call.p))
    /\ call.A.strides # compute_strides(call.A.shape)
    /\ ret.mid.err = "none"
    /\ ret.mid.val.strides # call.A.strides
    /\ ret.back.err = "none"
    /\ \E i, j \in Indices(call.A.shape) : Elem(call.A, i) # Elem(call.A, j)

\* --------------------------------------------------- specification Spec
\* A program holding arrays in a few variables (slots).  Every array refers
\* to a buffer of the heap; views refer to the buffer of the array they
\* were derived from.  The program is built with one of the two ndarray
\* class templates: "core" (core/ndarray.hpp, the buffer is held by
\* std::shared_ptr) or "legacy" (ndarray.hpp, a raw pointer and owns_data_).
HMaxRank == 2
HMaxDim == 2
HMaxElems == 4

\* The program's array variables and the addresses operator new hands out;
\* 0 stands for the null pointer.
Slots == {1, 2}
Bufs == {1, 2}

HShapes ==
    {s \in SeqsUpTo(1..HMaxDim, HMaxRank) :
        Len(s) >= 1 /\ compute_size(s) <= HMaxElems}

\* The values written by element assignment and fill: T{}, which differs
\* from every element of a created array.
WriteVals == {Zeros(1)[1]}

NoArr == [live |-> FALSE]
NoBuf == [st |-> "free", data |-> <<>>]
NoFrom == [op |-> "create", src |-> 0]

\* The array of a slot as a value: its shape and strides over the current
\* contents of its buffer.
ValueOf(s) ==
    [shape |-> arrs[s].shape,
     strides |-> arrs[s].strides,
     data |-> heap[arrs[s].buf].data]

Live(s) == arrs[s].live

\* An array whose buffer is allocated (not moved-from, not dangling).
Usable(s) ==
    /\ arrs[s].live
    /\ arrs[s].buf # 0
    /\ heap[arrs[s].buf].st = "live"

HasFreeSlot == \E s \in Slots : ~arrs[s].live
FreeSlot == CHOOSE s \in Slots : ~arrs[s].live /\ \A t \in Slots : t < s => arrs[t].live

\* A buffer id is available to operator new when it is not allocated and no
\* array still holds its address.
Available(b) ==
    /\ heap[b].st = "free"
    /\ \A s \in Slots : arrs[s].live => arrs[s].buf # b
HasFreeBuf == \E b \in Bufs : Available(b)
FreeBuf == CHOOSE b \in Bufs : Available(b) /\ \A c \in Bufs : c < b => ~Available(c)

InitHeap ==
    /\ pc = "run"
    /\ call = NoCall
    /\ ret = NoRet
    /\ build \in {"core", "legacy"}
    /\ arrs = [s \in Slots |-> NoArr]
    /\ heap = [b \in Bufs |-> NoBuf]
    /\ last = [op |-> "none", err |-> "none"]

\* The outcome r of a function called on the array of slot a: a failure
\* leaves the program as it was; a result goes to the first free slot,
\* over a's buffer (whose contents are r.val.data after the call) when the
\* function built it over A.data_ptr(), over a new buffer otherwise.
Store(op, a, r) ==
    /\ last' = [op |-> op, err |-> r.err]
    /\ IF r.err # "none" THEN UNCHANGED <<arrs, heap>>
       ELSE IF r.alias
       THEN /\ arrs' = [arrs EXCEPT ![FreeSlot] =
                          [live |-> TRUE, shape |-> r.val.shape,
                           strides |-> r.val.strides, buf |-> arrs[a].buf,
                           owns |-> (build = "core"),
                           from |-> [op |-> op, src |-> a]]]
            /\ heap' = [heap EXCEPT ![arrs[a].buf].data = r.val.data]
       ELSE /\ arrs' = [arrs EXCEPT ![FreeSlot] =
                          [live |-> TRUE, shape |-> r.val.shape,
                           strides |-> r.val.strides, buf |-> FreeBuf,
                           owns |-> TRUE,
                           from |-> [op |-> op, src |-> a]]]
            /\ heap' = [heap EXCEPT ![FreeBuf] =
                          [st |-> "live", data |-> r.val.data]]
    /\ UNCHANGED <<pc, call, ret, build>>

\* ndarray<T> A(shape, {1, 2, ...}) with either class template.
Create ==
    /\ pc = "run"
    /\ HasFreeSlot /\ HasFreeBuf
    /\ \E shape \in HShapes :
         /\ arrs' = [arrs EXCEPT ![FreeSlot] =
                       [live |-> TRUE, shape |-> shape,
                        strides |-> compute_strides(shape), buf |-> FreeBuf,
                        owns |-> TRUE, from |-> NoFrom]]
         /\ heap' = [heap EXCEPT ![FreeBuf] =
                       [st |-> "live", data |-> Iota(compute_size(shape))]]
    /\ last' = [op |-> "create", err |-> "none"]
    /\ UNCHANGED <<pc, call, ret, build>>

\* B = reshape(A, new_shape), core/reshape.hpp.
Reshape ==
    /\ pc = "run" /\ build = "core" /\ HasFreeSlot
    /\ \E a \in Slots, new_shape \in HShapes :
         /\ Usable(a)
         /\ Store("reshape", a, reshape(ValueOf(a), new_shape))

\* B = A.reshape(new_shape), ndarray.hpp.
MemberReshape ==
    /\ pc = "run" /\ build = "legacy" /\ HasFreeSlot /\ HasFreeBuf
    /\ \E a \in Slots, new_shape \in HShapes :
         /\ Usable(a)
         /\ Store("member_reshape", a, member_reshape(ValueOf(a), new_shape))

\* B = transpose(A, axes), core/ndarray.hpp.
Transpose ==
    /\ pc = "run" /\ build = "core" /\ HasFreeSlot
    /\ \E a \in Slots :
         /\ Usable(a)
         /\ \E axes \in Perms(Len(arrs[a].shape)) :
              Store("transpose", a, transpose(ValueOf(a), axes))

\* B = expand_dims(A, axis), core/reshape.hpp.
ExpandDims ==
    /\ pc = "run" /\ build = "core" /\ HasFreeSlot
    /\ \E a \in Slots :
         /\ Usable(a)
         /\ Len(arrs[a].shape) <= HMaxRank
         /\ \E axis \in 0..(Len(arrs[a].shape) + 1) :
              Store("expand_dims", a, expand_dims(ValueOf(a), axis))

\* B = squeeze(A, axis), core/reshape.hpp; axis -1 squeezes every axis.
Squeeze ==
    /\ pc = "run" /\ build = "core" /\ HasFreeSlot
    /\ \E a \in Slots :
         /\ Usable(a)
         /\ \E axis \in (-1)..Len(arrs[a].shape) :
              Store("squeeze", a, squeeze(ValueOf(a), axis))

\* The multi-indices a program passes to an array of the given shape: every
\* index vector of the right rank with entries up to and including the
\* dimension (so in range or not), and vectors one index short or long.
AccessInputs(shape) ==
    Indices([i \in 1..Len(shape) |-> shape[i] + 1])
    \cup {SubSeq(idx, 1, Len(idx) - 1) : idx \in Indices(shape)}
    \cup {Append(idx, 0) : idx \in Indices(shape)}

\* A(indices...) = WriteVal (core) or A.at(indices) = WriteVal (legacy).
WriteAt ==
    /\ pc = "run"
    /\ \E a \in Slots, v \in WriteVals :
         /\ Usable(a)
         /\ \E indices \in AccessInputs(arrs[a].shape) :
              LET r == at(ValueOf(a), indices,
                          IF build = "core" THEN "invalid_argument"
                          ELSE "runtime_error")
              IN  /\ last' = [op |-> "at", err |-> r.err]
                  /\ heap' = IF r.err # "none" THEN heap
                             ELSE [heap EXCEPT ![arrs[a].buf].data[r.off + 1] = v]
    /\ UNCHANGED <<pc, call, ret, build, arrs>>

\* A.fill(WriteVal): every element of the buffer (core: the whole vector;
\* legacy: data_[0 .. size_), size_ being the product of the shape).
Fill ==
    /\ pc = "run"
    /\ \E a \in Slots, v \in WriteVals :
         /\ Usable(a)
         /\ heap' = [heap EXCEPT ![arrs[a].buf].data =
                       [k \in 1..Len(heap[arrs[a].buf].data) |-> v]]
    /\ last' = [op |-> "fill", err |-> "none"]
    /\ UNCHANGED <<pc, call, ret, build, arrs>>

\* B = broadcast_to(A, target_shape), core/reshape.hpp: B is built over
\* A.data_ptr() and filled in place.
BroadcastTo ==
    /\ pc = "run" /\ build = "core" /\ HasFreeSlot
    /\ \E a \in Slots, target_shape \in HShapes :
         /\ Usable(a)
         /\ LET r == broadcast_to(ValueOf(a), target_shape)
            IN  Store("broadcast_to", a,
                      [err |-> r.err, val |-> r.val, alias |-> TRUE])

\* A function whose result r is a temporary: the arrays it builds are its
\* own and are gone when the statement ends.
Discard(op, r) ==
    /\ last' = [op |-> op, err |-> r.err]
    /\ UNCHANGED <<pc, call, ret, build, arrs, heap>>

\* broadcast_to(A, target_shape) of broadcasting.hpp.
LegacyBroadcastTo ==
    /\ pc = "run" /\ build = "legacy"
    /\ \E a \in Slots, target_shape \in HShapes :
         /\ Usable(a)
         /\ Discard("broadcast_to", legacy_broadcast_to(ValueOf(a), target_shape))

\* slice(A, row_start, row_end, col_start, col_end), core/reshape.hpp.
Slice ==
    /\ pc = "run" /\ build = "core"
    /\ \E a \in Slots, row_start, row_end, col_start, col_end \in 0..HMaxDim :
         /\ Usable(a)
         /\ Discard("slice", slice(ValueOf(a), row_start, row_end,
                                   col_start, col_end))

\* A + B, A - B, A * B: the friend operators and ops/arithmetic.hpp add /
\* sub / mul with the core class, operations.hpp with the legacy one.
Arithmetic ==
    /\ pc = "run"
    /\ \E a, b \in Slots, op \in {"add", "sub", "mul"} :
         /\ Usable(a) /\ Usable(b)
         /\ \/ /\ build = "core"
               /\ Discard(op, element_wise_op(op, ValueOf(a), ValueOf(b)))
            \/ /\ build = "core"
               /\ Discard(op, arithmetic(op, ValueOf(a), ValueOf(b)))
            \/ /\ build = "legacy"
               /\ Discard(op, elementwise(op, ValueOf(a), ValueOf(b)))

\* matmul(A, B), linalg/matrix.hpp.
Matmul ==
    /\ pc = "run" /\ build = "core"
    /\ \E a, b \in Slots :
         /\ Usable(a) /\ Usable(b)
         /\ Discard("matmul", dot(ValueOf(a), ValueOf(b)))

\* det(A), linalg/matrix.hpp.
Det ==
    /\ pc = "run" /\ build = "core"
    /\ \E a \in Slots :
         /\ Usable(a)
         /\ Discard("det", det(AsReal(ValueOf(a))))

NextAlias == Create \/ Reshape \/ MemberReshape \/ Transpose \/ ExpandDims
             \/ Squeeze \/ WriteAt \/ Fill

\* Creation, view derivation and writes.
SpecAlias == InitHeap /\ [][NextAlias]_vars

Next == NextAlias \/ BroadcastTo \/ LegacyBroadcastTo \/ Slice
        \/ Arithmetic \/ Matmul \/ Det

\* Creation, view derivation, writes and the kernels.
Spec == InitHeap /\ [][Next]_vars

\* ----------------------------------------------- specification SpecLife
\* B = A.ravel(), core/ndarray.hpp.
Ravel ==
    /\ pc = "run" /\ build = "core" /\ HasFreeSlot
    /\ \E a \in Slots :
         /\ Usable(a)
         /\ Store("ravel", a, ravel(ValueOf(a)))

\* ndarray.hpp create_view(new_shape, new_strides, new_data): an array over
\* the given pointer that does not own it.
create_view(new_shape, new_strides, new_data, src) ==
    [live |-> TRUE, shape |-> new_shape, strides |-> new_strides,
     buf |-> new_data, owns |-> FALSE,
     from |-> [op |-> "create_view", src |-> src]]

\* V = A.create_view(A.shape(), A.strides(), A.data()).
CreateView ==
    /\ pc = "run" /\ build = "legacy" /\ HasFreeSlot
    /\ \E a \in Slots :
         /\ Usable(a)
         /\ arrs' = [arrs EXCEPT ![FreeSlot] =
                       create_view(arrs[a].shape, arrs[a].strides, arrs[a].buf, a)]
    /\ last' = [op |-> "create_view", err |-> "none"]
    /\ UNCHANGED <<pc, call, ret, build, heap>>

\* ndarray B(A).  core: the implicit copy constructor copies the shared_ptr,
\* so B refers to A's buffer.  legacy: a deep copy that owns a new buffer
\* (no buffer when size_ is 0, as in a moved-from array).
Copy ==
    /\ pc = "run" /\ HasFreeSlot
    /\ \E a \in Slots :
         /\ arrs[a].live
         /\ IF build = "core" \/ arrs[a].buf = 0
            THEN /\ arrs' = [arrs EXCEPT ![FreeSlot] =
                               [arrs[a] EXCEPT !.owns = TRUE,
                                               !.from = [op |-> "copy", src |-> a]]]
                 /\ UNCHANGED heap
            ELSE /\ Usable(a) /\ HasFreeBuf
                 /\ arrs' = [arrs EXCEPT ![FreeSlot] =
                               [arrs[a] EXCEPT !.buf = FreeBuf,
                                               !.owns = TRUE,
                                               !.from = [op |-> "copy", src |-> a]]]
                 /\ heap' = [heap EXCEPT ![FreeBuf] = heap[arrs[a].buf]]
    /\ last' = [op |-> "copy", err |-> "none"]
    /\ UNCHANGED <<pc, call, ret, build>>

\* An array after its contents were moved out of it: no shape, no buffer.
MovedFrom == [live |-> TRUE, shape |-> <<>>, strides |-> <<>>, buf |-> 0,
              owns |-> FALSE, from |-> NoFrom]

\* ndarray B(std::move(A)): B takes A's pointer and ownership; A is left
\* without a buffer.
Move ==
    /\ pc = "run" /\ HasFreeSlot
    /\ \E a \in Slots :
         /\ arrs[a].live
         /\ arrs' = [arrs EXCEPT ![FreeSlot] =
                       [arrs[a] EXCEPT !.from = [op |-> "move", src |-> a]],
                                 ![a] = MovedFrom]
    /\ last' = [op |-> "move", err |-> "none"]
    /\ UNCHANGED <<pc, call, ret, build, heap>>

\* The array of a slot goes out of scope.  core: the shared_ptr is
\* released and the buffer is deleted with its last owner.  legacy
\* ~ndarray(): delete[] data_ if owns_data_ and data_ is not null.
Destroy ==
    /\ pc = "run"
    /\ \E a \in Slots :
         /\ arrs[a].live
         /\ arrs' = [arrs EXCEPT ![a] = NoArr]
         /\ heap' =
              IF arrs[a].buf = 0 THEN heap
              ELSE IF build = "core"
              THEN IF \E t \in Slots \ {a} : arrs[t].live /\ arrs[t].buf = arrs[a].buf
                   THEN heap
                   ELSE [heap EXCEPT ![arrs[a].buf] = NoBuf]
              ELSE IF arrs[a].owns
                   THEN [heap EXCEPT ![arrs[a].buf] = NoBuf]
                   ELSE heap
    /\ last' = [op |-> "destroy", err |-> "none"]
    /\ UNCHANGED <<pc, call, ret, build>>

NextLife == Create \/ Reshape \/ MemberReshape \/ Transpose \/ ExpandDims
            \/ Squeeze \/ Ravel \/ CreateView \/ Copy \/ Move \/ Destroy

\* Creation, view derivation, copy, move and destruction.
SpecLife == InitHeap /\ [][NextLife]_vars

\* --------------------------------------------- specification SpecAccess
\* One view derivation from a fresh or transposed array, followed by
\* element access on the result with every index vector a program may pass.
Derivations(A, impl) ==
    IF impl = "legacy"
    THEN {[kind |-> "none"]}
         \cup {[kind |-> "member_reshape", shape |-> S] :
                 S \in {T \in VShapes : compute_size(T) = Len(A.data)}}
    ELSE {[kind |-> "none"]}
         \cup {[kind |-> "reshape", shape |-> S] :
                 S \in {T \in VShapes : compute_size(T) = Len(A.data)}}
         \cup {[kind |-> "transpose", axes |-> p] : p \in Perms(Len(A.shape))}
         \cup {[kind |-> "expand_dims", axis |-> k] : k \in 0..Len(A.shape)}
         \cup {[kind |-> "squeeze", axis |-> k] : k \in (-1)..(Len(A.shape) - 1)}

Derive(A, d) ==
    CASE d.kind = "none" -> Shared(Ok(A))
      [] d.kind = "reshape" -> reshape(A, d.shape)
      [] d.kind = "member_reshape" -> member_reshape(A, d.shape)
      [] d.kind = "transpose" -> transpose(A, d.axes)
      [] d.kind = "expand_dims" -> expand_dims(A, d.axis)
      [] d.kind = "squeeze" -> squeeze(A, d.axis)

\* The legacy class has no strided views: its arrays are row-major.
AccessArrays(impl) ==
    IF impl = "legacy"
    THEN {PermutedView(s, IdentityPerm(Len(s))) : s \in VShapes}
    ELSE ViewInputs

RankError(impl) == IF impl = "core" THEN "invalid_argument" ELSE "runtime_error"

InitAccess ==
    /\ pc = "call"
    /\ call \in
         UNION {UNION {{[op |-> "access", impl |-> impl, A |-> A, d |-> d] :
                          d \in Derivations(A, impl)} :
                       A \in AccessArrays(impl)} :
                impl \in {"core", "legacy"}}
    /\ ret = NoRet
    /\ IdleHeap

\* V = derive(A); V(indices...) or V.at(indices) for every index vector.
DoAccess ==
    /\ pc = "call"
    /\ call.op = "access"
    /\ LET view == Derive(call.A, call.d)
       IN  ret' = [op |-> "access", view |-> view,
                   acc |-> IF view.err # "none" THEN <<>>
                           ELSE [indices \in AccessInputs(view.val.shape) |->
                                   at(view.val, indices, RankError(call.impl))]]
    /\ pc' = "done"
    /\ UNCHANGED <<call, build, arrs, heap, last>>

NextAccess == DoAccess

SpecAccess == InitAccess /\ [][NextAccess]_vars

\* sum of idx[i] * strides[i], taken from the last axis to the first.
RECURSIVE Offset(_, _, _)
Offset(idx, strides, k) ==
    IF k = 0 THEN 0 ELSE Offset(idx, strides, k - 1) + idx[k] * strides[k]

DerivedBy(b, a, ops) ==
    /\ arrs[b].live
    /\ arrs[b].from.op \in ops
    /\ arrs[b].from.src = a
    /\ arrs[a].live

\* Both arrays read the same value at every buffer position.
ReadSame(a, b) == heap[arrs[a].buf].data = heap[arrs[b].buf].data

ViewOps == {"reshape", "transpose", "expand_dims", "squeeze"}

C3_Frame ==
    [][last'.op \notin {"at", "fill"} =>
         \A s \in Slots :
             arrs[s].live =>
                 /\ arrs'[s].live
                 /\ arrs'[s].shape = arrs[s].shape
                 /\ heap'[arrs[s].buf].data = heap[arrs[s].buf].data]_vars

\* C7: no live array refers to a freed buffer, and a buffer that no live
\* array refers to has been freed.
C7_BufferLifetime ==
    /\ \A s \in Slots :
         (arrs[s].live /\ arrs[s].buf # 0) => heap[arrs[s].buf].st = "live"
    /\ \A b \in Bufs :
         heap[b].st = "live" => \E s \in Slots : arrs[s].live /\ arrs[s].buf = b

\* ---------------------------------------------- specification SpecIndex
\* One call of flatten_index followed by unravel_index on a multi-index of
\* a shape, or of unravel_index followed by flatten_index on an offset,
\* with strides = compute_strides(shape).
InitIndex ==
    /\ pc = "call"
    /\ call \in
         UNION {{[op |-> "flatten", shape |-> s, idx |-> idx] :
                    idx \in Indices(s)} : s \in ShapeInputs}
         \cup UNION {{[op |-> "unravel", shape |-> s, k |-> k] :
                    k \in 0..(compute_size(s) - 1)} : s \in ShapeInputs}
    /\ ret = NoRet
    /\ IdleHeap

\* k = flatten_index(idx, strides); unravel_index(k, shape, strides).
DoFlattenUnravel ==
    /\ pc = "call"
    /\ call.op = "flatten"
    /\ LET strides == compute_strides(call.shape)
           k == flatten_index(call.idx, strides)
       IN  ret' = [op |-> "flatten", k |-> k,
                   idx |-> unravel_index(k, call.shape, strides)]
    /\ pc' = "done"
    /\ UNCHANGED <<call, build, arrs, heap, last>>

\* idx = unravel_index(k, shape, strides); flatten_index(idx, strides).
DoUnravelFlatten ==
    /\ pc = "call"
    /\ call.op = "unravel"
    /\ LET strides == compute_strides(call.shape)
           idx == unravel_index(call.k, call.shape, strides)
       IN  ret' = [op |-> "unravel", idx |-> idx,
                   k |-> flatten_index(idx, strides)]
    /\ pc' = "done"
    /\ UNCHANGED <<call, build, arrs, heap, last>>

NextIndex == DoFlattenUnravel \/ DoUnravelFlatten

SpecIndex == InitIndex /\ [][NextIndex]_vars

\* C11: with strides = compute_strides(shape) of a shape of positive
\* dimensions, unravel_index(flatten_index(idx, strides), shape, strides)
\* is idx for every multi-index idx within the shape, and
\* flatten_index(unravel_index(k, shape, strides), strides) is k, with the
\* unravelled index within the shape, for every offset k < product(shape).
C11_FlattenUnravelInverse ==
    pc = "done" =>
        /\ call.op = "flatten" =>
              /\ ret.k < compute_size(call.shape)
              /\ ret.idx = call.idx
        /\ call.op = "unravel" =>
              /\ ret.k = call.k
              /\ ret.idx \in Indices(call.shape)

\* An index with two non-zero coordinates of a shape of rank 3 went
\* through flatten_index and unravel_index.
C11_Witness ==
    /\ pc = "done"
    /\ call.op = "flatten"
    /\ Len(call.shape) = 3
    /\ call.idx[1] > 0 /\ call.idx[3] > 0
    /\ ret.k > call.idx[3]
    /\ ret.idx = call.idx

\* --------------------------------------------- specification SpecMatmul
\* One call of matmul.  A holds 1, 2, ... (for the core class possibly seen
\* through a transpose), B holds the values that follow A's.
KMaxRank == 2
KMaxDim == 3

KShapes == {s \in SeqsUpTo(1..KMaxDim, KMaxRank) : Len(s) >= 1}

\* The row-major array of the given shape holding base+1, base+2, ...
OffsetArray(shape, base) ==
    FreshArray(shape, [i \in 1..compute_size(shape) |-> base + i])

InitMatmul ==
    /\ pc = "call"
    /\ call \in
         {[op |-> "matmul", impl |-> "core", A |-> v.A,
           B |-> OffsetArray(sb, Len(v.A.data))] :
             v \in UNION {{[A |-> PermutedView(s, q)] : q \in Perms(Len(s))} :
                            s \in KShapes},
             sb \in KShapes}
         \cup {[op |-> "matmul", impl |-> "legacy", A |-> IotaArray(sa),
                B |-> OffsetArray(sb, compute_size(sa))] :
             sa \in KShapes, sb \in KShapes}
    /\ ret = NoRet
    /\ IdleHeap

\* C = matmul(A, B): linalg/matrix.hpp with the core class,
\* linear_algebra.hpp with the legacy one.
DoMatmul ==
    /\ pc = "call"
    /\ call.op = "matmul"
    /\ ret' = IF call.impl = "core" THEN dot(call.A, call.B)
              ELSE legacy_matmul(call.A, call.B)
    /\ pc' = "done"
    /\ UNCHANGED <<call, build, arrs, heap, last>>

NextMatmul == DoMatmul

SpecMatmul == InitMatmul /\ [][NextMatmul]_vars

\* The sum of f[0] + ... + f[n - 1].
RECURSIVE SumTo(_, _)
SumTo(f, n) == IF n = 0 THEN 0 ELSE SumTo(f, n - 1) + f[n - 1]

\* C12: matmul(A, B) fails with the shape error unless A and B are both of
\* rank 2 and A's column count is B's row count; otherwise it returns C of
\* shape n x m with C(i, j) the sum over k of A(i, k) * B(k, j).
C12_Matmul ==
    (pc = "done" /\ call.op = "matmul") =>
        IF /\ Len(call.A.shape) = 2
           /\ Len(call.B.shape) = 2
           /\ call.A.shape[2] = call.B.shape[1]
        THEN /\ ret.err = "none"
             /\ ret.val.shape = <<call.A.shape[1], call.B.shape[2]>>
             /\ \A idx \in Indices(ret.val.shape) :
                   Elem(ret.val, idx) =
                      SumTo([k \in 0..(call.A.shape[2] - 1) |->
                                Elem(call.A, <<idx[1], k>>)
                                * Elem(call.B, <<k, idx[2]>>)],
                            call.A.shape[2])
        ELSE ret.err = (IF call.impl = "core" THEN "invalid_argument"
                        ELSE "runtime_error")

\* [[1,2,3],[4,5,6]] times [[7,8],[9,10],[11,12]] is [[58,64],[139,154]].
C12_Witness ==
    /\ pc = "done"
    /\ call.op = "matmul"
    /\ call.A = IotaArray(<<2, 3>>)
    /\ call.B.shape = <<3, 2>>
    /\ call.B.data = <<7, 8, 9, 10, 11, 12>>
    /\ ret.err = "none"
    /\ ret.val.data = <<58, 64, 139, 154>>

\* ------------------------------------------------ specification SpecDet
\* det on square matrices of T, the cases of tests/test_linalg.cpp among
\* them.
DMaxN == 3

\* A non-zero value of T below the singularity threshold of det and inv.
Small == Rat(1, 2^20)

\* The rows a matrix of SpecDet is built from: the unit vectors, the rows
\* 1..n and n+1..2n, the first unit vector scaled by Small, and for n = 3
\* the rows of the matrix B of test_det.
DetRows(n) ==
    {[j \in 1..n |-> RatOf(IF j = i THEN 1 ELSE 0)] : i \in 1..n}
    \cup {[j \in 1..n |-> RatOf(c * n + j)] : c \in 0..1}
    \cup {[j \in 1..n |-> IF j = 1 THEN Small ELSE RatOf(0)]}
    \cup (IF n = 3
          THEN {<<RatOf(1), RatOf(0), RatOf(2)>>,
                <<RatOf(-1), RatOf(3), RatOf(1)>>,
                <<RatOf(2), RatOf(4), RatOf(-2)>>}
          ELSE {})

\* The n x n matrix with the given rows, in row-major order.
MatrixOfRows(rows) ==
    LET n == Len(rows)
    IN  FreshArray(<<n, n>>,
                   [i \in 1..(n * n) |-> rows[((i - 1) \div n) + 1][((i - 1) % n) + 1]])

SquareMatrices ==
    UNION {{MatrixOfRows(rows) : rows \in [1..n -> DetRows(n)]} : n \in 1..DMaxN}

InitDet ==
    /\ pc = "call"
    /\ call \in {[op |-> "det", A |-> A] : A \in SquareMatrices}
    /\ ret = NoRet
    /\ IdleHeap

\* d = det(A), linalg/matrix.hpp.
DoDet ==
    /\ pc = "call"
    /\ call.op = "det"
    /\ ret' = det(call.A)
    /\ pc' = "done"
    /\ UNCHANGED <<call, build, arrs, heap, last>>

NextDet == DoDet

SpecDet == InitDet /\ [][NextDet]_vars

\* The determinant of A by the Leibniz formula: the sum over the
\* permutations p of sign(p) * A(0, p(0)) * ... * A(n-1, p(n-1)).
RECURSIVE RProd(_, _)
RProd(f, n) == IF n = 0 THEN RatOf(1) ELSE RMul(RProd(f, n - 1), f[n])

RECURSIVE RSumOver(_, _)
RSumOver(f(_), S) ==
    IF S = {} THEN RatOf(0)
    ELSE LET x == CHOOSE y \in S : TRUE
         IN  RAdd(f(x), RSumOver(f, S \ {x}))

Inversions(p) ==
    Cardinality({ij \in (1..Len(p)) \X (1..Len(p)) :
                    ij[1] < ij[2] /\ p[ij[1]] > p[ij[2]]})

Determinant(A) ==
    LET n == A.shape[1]
        term(p) ==
            LET prod == RProd([i \in 1..n |-> Elem(A, <<i - 1, p[i]>>)], n)
            IN  IF Inversions(p) % 2 = 0 THEN prod ELSE RNeg(prod)
    IN  RSumOver(term, Perms(n))

\* C13: det(A) on a square matrix of any size n >= 1 raises no error and
\* returns the determinant of A; in particular 0 when A is singular, 1
\* for the identity and -2 for [[1,2],[3,4]].
C13_Det ==
    (pc = "done" /\ call.op = "det")
        => /\ ret.err = "none"
           /\ ret.val = Determinant(call.A)

\* ------------------------------------------------ specification SpecInv
\* inv (linalg/matrix.hpp) and inverse (linear_algebra.hpp) on the square
\* matrices of SpecDet.
InitInv ==
    /\ pc = "call"
    /\ call \in {[op |-> op, A |-> A] :
                    op \in {"inv", "inverse"}, A \in SquareMatrices}
    /\ ret = NoRet
    /\ IdleHeap

\* B = inv(A), linalg/matrix.hpp.
DoInv ==
    /\ pc = "call"
    /\ call.op = "inv"
    /\ ret' = inv(call.A)
    /\ pc' = "done"
    /\ UNCHANGED <<call, build, arrs, heap, last>>

\* B = inverse(A), linear_algebra.hpp.
DoInverse ==
    /\ pc = "call"
    /\ call.op = "inverse"
    /\ ret' = inverse(call.A)
    /\ pc' = "done"
    /\ UNCHANGED <<call, build, arrs, heap, last>>

NextInv == DoInv \/ DoInverse

SpecInv == InitInv /\ [][NextInv]_vars

\* The (i, j) entry of the matrix product A B.
ProductEntry(A, B, i, j) ==
    LET n == A.shape[2]
        term(k) == RMul(Elem(A, <<i, k>>), Elem(B, <<k, j>>))
    IN  RSumOver(term, 0..(n - 1))

IsInverse(A, B) ==
    /\ B.shape = A.shape
    /\ \A i, j \in 0..(A.shape[1] - 1) :
         ProductEntry(A, B, i, j) = RatOf(IF i = j THEN 1 ELSE 0)

Singular(A) == Determinant(A) = RatOf(0)

EMaxN == 2
EMaxIter == 3
EMaxTol == 2

\* const int max_iter = 100 of svd_full.
SvdMaxIter == 100

\* The loop conditions "iter < max_iter".
within_limit_inclusive(iter, max_iter) == iter <= max_iter

within_limit(iter, max_iter) == iter < max_iter

\* The values of off_diag_norm after a QR sweep on an n x n iterate: the
\* sum over no entries when n = 1.
OffDiagNorms(n) == IF n = 1 THEN {0} ELSE 0..EMaxTol

\* The values of conv after a Jacobi sweep on the n x n matrix AtA: no
\* pair p < q exists when n = 1.
ConvFlags(n) == IF n = 1 THEN {TRUE} ELSE BOOLEAN

InitEig ==
    /\ pc = "Initialized"
    /\ call \in {[op |-> "eig", m |-> n, n |-> n, max_iter |-> mi, tol |-> t] :
                    n \in 1..EMaxN, mi \in 0..EMaxIter, t \in 0..EMaxTol}
                \cup {[op |-> "svd_full", m |-> m, n |-> n,
                       max_iter |-> SvdMaxIter, tol |-> 0] :
                    m \in 1..EMaxN, n \in 1..EMaxN}
    /\ ret = [iter |-> 0, sweeps |-> 0, converged |-> FALSE]
    /\ IdleHeap

Looping == pc \in {"Initialized", "Iterating"}

\* One pass of the body of eig's for loop: QR factorisation, Ak = R Q,
\* V = V Q, then "if (off_diag_norm < tol) break".
EigSweep ==
    /\ Looping /\ call.op = "eig"
    /\ within_limit(ret.iter, call.max_iter)
    /\ \E off_diag_norm \in OffDiagNorms(call.n) :
         IF off_diag_norm < call.tol
         THEN /\ pc' = "Converged"
              /\ ret' = [ret EXCEPT !.sweeps = @ + 1, !.converged = TRUE]
         ELSE /\ pc' = "Iterating"
              /\ ret' = [ret EXCEPT !.sweeps = @ + 1, !.iter = @ + 1]
    /\ UNCHANGED <<call, build, arrs, heap, last>>

\* One pass of the body of svd_full's for loop: the Jacobi rotations over
\* the pairs p < q, then "if (conv) break".
JacobiSweep ==
    /\ Looping /\ call.op = "svd_full"
    /\ within_limit(ret.iter, call.max_iter)
    /\ \E conv \in ConvFlags(call.n) :
         IF conv
         THEN /\ pc' = "Converged"
              /\ ret' = [ret EXCEPT !.sweeps = @ + 1, !.converged = TRUE]
         ELSE /\ pc' = "Iterating"
              /\ ret' = [ret EXCEPT !.sweeps = @ + 1, !.iter = @ + 1]
    /\ UNCHANGED <<call, build, arrs, heap, last>>

\* The loop condition fails: the loop is left without a break.
LimitReached ==
    /\ Looping
    /\ ~within_limit(ret.iter, call.max_iter)
    /\ pc' = "IterationLimitReached"
    /\ UNCHANGED <<call, ret, build, arrs, heap, last>>

\* The code after the loop: eig builds eigenvalues({n, 1}) and returns it
\* with V; svd_full assigns S({k}), U({m, m}) and Vt = transpose(V).
Return ==
    /\ pc \in {"Converged", "IterationLimitReached"}
    /\ pc' = "done"
    /\ ret' = [err |-> "none",
               val |-> IF call.op = "eig"
                       THEN [eigenvalues |-> <<call.n, 1>>,
                             eigenvectors |-> <<call.n, call.n>>]
                       ELSE [S |-> <<Min(call.m, call.n)>>,
                             U |-> <<call.m, call.m>>,
                             Vt |-> <<call.n, call.n>>],
               iter |-> ret.iter, sweeps |-> ret.sweeps,
               converged |-> ret.converged]
    /\ UNCHANGED <<call, build, arrs, heap, last>>

NextEig == EigSweep \/ JacobiSweep \/ LimitReached \/ Return

\* The code runs to completion: a step that can be taken is taken.
SpecEig == InitEig /\ [][NextEig]_vars /\ WF_vars(NextEig)

EigControl ==
    /\ ret.sweeps <= call.max_iter
    /\ (pc = "Initialized") => ret.sweeps = 0
    /\ (pc = "Iterating") => ret.sweeps >= 1 /\ ~ret.converged
    /\ (pc = "Converged") => ret.converged
    /\ (pc = "IterationLimitReached")
          => ret.sweeps = call.max_iter /\ ~ret.converged
    /\ (pc = "done")
          => /\ ret.err = "none"
             /\ call.op = "eig"
                   => /\ ret.val.eigenvalues = <<call.n, 1>>
                      /\ ret.val.eigenvectors = <<call.n, call.n>>
             /\ call.op = "svd_full" => call.max_iter = SvdMaxIter

\* C15: eig and svd_full always return: they sweep at most max_iter times
\* (100 for svd_full), leave the loop at the first sweep that passes the
\* convergence test or after exactly max_iter sweeps, raise no error, and
\* eig returns eigenvalues of shape n x 1 and eigenvectors of shape n x n.
C15_EigTerminates == []EigControl /\ <>(pc = "done")

\* eig has returned from each terminal state after at least two sweeps,
\* and svd_full after its hundred sweeps.
C15_Witness ==
    /\ pc = "done" /\ call.op = "eig" /\ call.n = 2
    /\ ret.sweeps = call.max_iter /\ ret.sweeps >= 2 /\ ~ret.converged

C15_WitnessSvd ==
    pc = "done" /\ call.op = "svd_full" /\ ret.sweeps = SvdMaxIter

\* --------------------------------------------- specification SpecReduce
\* sum_axis, max_axis and min_axis (ops/reduction.hpp) on fresh arrays and
\* on transposed views, for axis = -1 and every axis of the array.
RMaxRank == 3
RMaxDim == 2

RShapes == SeqsUpTo(1..RMaxDim, RMaxRank) \ {<<>>}

InitReduce ==
    /\ pc = "call"
    /\ call \in {[op |-> name, A |-> v.A, axis |-> axis] :
                    name \in {"sum_axis", "max_axis", "min_axis"},
                    v \in UNION {{[A |-> PermutedView(s, q)] : q \in Perms(Len(s))} :
                                   s \in RShapes},
                    axis \in -1..(RMaxRank - 1)}
    /\ ret = NoRet
    /\ IdleHeap

\* R = sum_axis(A, axis), max_axis(A, axis) or min_axis(A, axis).
DoReduceAxis ==
    /\ pc = "call"
    /\ call.op \in {"sum_axis", "max_axis", "min_axis"}
    /\ ret' = reduce_axis(call.A, call.axis, call.op)
    /\ pc' = "done"
    /\ UNCHANGED <<call, build, arrs, heap, last>>

NextReduce == DoReduceAxis

SpecReduce == InitReduce /\ [][NextReduce]_vars

\* The fold of A's elements along the axis at the outer coordinate: the
\* elements A(outer with i inserted at the axis), i = 0, 1, ...
AlongAxis(A, axis, outer) ==
    [i \in 1..A.shape[axis + 1] |->
        Elem(A, [k \in 1..Len(A.shape) |->
                    IF k <= axis THEN outer[k]
                    ELSE IF k = axis + 1 THEN i - 1
                    ELSE outer[k - 1]])]

\* C16: for a non-empty array A and a valid axis, the axis reduction
\* returns an array of A's shape without that axis ({1} when nothing
\* remains) whose element at each outer coordinate is the fold of A's
\* elements along the axis; with axis = -1 it returns the fold of the
\* whole flat buffer as a single element.
C16_ReduceAxis ==
    (pc = "done" /\ call.op \in {"sum_axis", "max_axis", "min_axis"}
        /\ call.axis < Len(call.A.shape))
        => /\ ret.err = "none"
           /\ IF call.axis = -1
              THEN /\ Len(ret.val.data) = 1
                   /\ ret.val.data[1]
                        = Fold(call.op, ReduceInit(call.op), call.A.data)
              ELSE LET new_shape == EraseAt(call.A.shape, call.axis)
                   IN  IF new_shape = <<>>
                       THEN /\ ret.val.shape = <<1>>
                            /\ ret.val.data[1]
                                 = Fold(call.op, ReduceInit(call.op),
                                        AlongAxis(call.A, call.axis, <<>>))
                       ELSE /\ ret.val.shape = new_shape
                            /\ \A outer \in Indices(new_shape) :
                                 Elem(ret.val, outer)
                                   = Fold(call.op, ReduceInit(call.op),
                                          AlongAxis(call.A, call.axis, outer))

\* --------------------------------------------- specification SpecDivide
\* The division entry points on operands of one shape, the divisor holding
\* any mix of zero and non-zero elements: div (ops/arithmetic.hpp), divide
\* and divide_scalar (operations.hpp), operator/ with an array and with a
\* scalar divisor (core/ndarray.hpp).
QMaxRank == 2
QMaxDim == 2

QShapes == SeqsUpTo(1..QMaxDim, QMaxRank) \ {<<>>}

Divisors == {Zeros(1)[1], Iota(2)[2]}

InitDivide ==
    /\ pc = "call"
    /\ call \in UNION {{[op |-> "div", impl |-> impl, A |-> IotaArray(s),
                         B |-> FreshArray(s, d)] :
                           impl \in {"arithmetic", "operations", "operator"},
                           d \in [1..compute_size(s) -> Divisors]} :
                       s \in QShapes}
                \cup {[op |-> "div", impl |-> impl, A |-> IotaArray(s), rhs |-> b] :
                    impl \in {"operator_scalar", "divide_scalar"},
                    s \in QShapes, b \in Divisors}
    /\ ret = NoRet
    /\ IdleHeap

\* C = div(A, B), divide(A, B) or A / B.
DoDivide ==
    /\ pc = "call"
    /\ call.op = "div"
    /\ call.impl \in {"arithmetic", "operations", "operator"}
    /\ ret' = CASE call.impl = "arithmetic" -> div(call.A, call.B)
                [] call.impl = "operations" -> elementwise("div", call.A, call.B)
                [] call.impl = "operator" -> element_wise_op("div", call.A, call.B)
    /\ pc' = "done"
    /\ UNCHANGED <<call, build, arrs, heap, last>>

\* C = A / b or divide_scalar(A, b) with a scalar b.
DoDivideScalar ==
    /\ pc = "call"
    /\ call.op = "div"
    /\ call.impl \in {"operator_scalar", "divide_scalar"}
    /\ ret' = element_wise_op_scalar("div", call.A, call.rhs)
    /\ pc' = "done"
    /\ UNCHANGED <<call, build, arrs, heap, last>>

NextDivide == DoDivide \/ DoDivideScalar

SpecDivide == InitDivide /\ [][NextDivide]_vars

ScalarDivisor == call.impl \in {"operator_scalar", "divide_scalar"}

\* The divisor of output element i (1-based, row-major): the operands
\* have one shape, so the broadcast mapping is the identity.
DivisorAt(i) == IF ScalarDivisor THEN call.rhs ELSE call.B.data[i]

\* The operands the entry point accepts: div takes 2-D arrays only.
Divisible == call.impl = "arithmetic" => Len(call.A.shape) = 2

\* C17: for every division entry point, a zero among the divisor elements
\* makes the call fail with a domain error and return no array; with no
\* zero, every output element is the quotient of the operands.
C17_DivisionByZero ==
    (pc = "done" /\ call.op = "div" /\ Divisible)
        => IF \E i \in DOMAIN call.A.data : DivisorAt(i) = 0
           THEN ret.err = "domain_error"
           ELSE /\ ret.err = "none"
                /\ ret.val.shape = call.A.shape
                /\ \A i \in DOMAIN call.A.data :
                     ret.val.data[i] = Rat(call.A.data[i], DivisorAt(i))

\* ----------------------------------------------- specification SpecSize
\* The element-count computations in a size_t of SizeBits bits.  The
\* other specifications keep every product far below the width of a real
\* size_t and use the unbounded product of compute_size; here the width
\* is small enough for the products of the model's shapes to exceed it.
SizeBits == 4
SMaxRank == 3
SMaxDim == 4

\* std::numeric_limits<size_t>::max().
SizeMax == 2^SizeBits - 1

\* core/shape.hpp total_size: the loop over the dimensions, from the
\* running total.
RECURSIVE total_size_from(_, _)
total_size_from(total, shape) ==
    IF shape = <<>> THEN Ok(total)
    ELSE LET dim == Head(shape)
         IN  IF dim # 0 /\ total > SizeMax \div dim THEN Err("overflow_error")
             ELSE total_size_from((total * dim) % (SizeMax + 1), Tail(shape))

checked_total_size(shape) == total_size_from(1, shape)

\* utils.hpp compute_size: std::accumulate with std::multiplies<size_t>,
\* whose products wrap.
RECURSIVE accumulate(_, _)
accumulate(total, shape) ==
    IF shape = <<>> THEN total
    ELSE accumulate((total * Head(shape)) % (SizeMax + 1), Tail(shape))

wrapping_compute_size(shape) == IF shape = <<>> THEN 1 ELSE accumulate(1, shape)

\* core/ndarray.hpp init_from_shape: the number of elements the buffer is
\* given (data_->assign(total, init)).
RECURSIVE init_total_from(_, _)
init_total_from(total, shape) ==
    IF shape = <<>> THEN Ok(total)
    ELSE IF Head(shape) > SizeMax \div total THEN Err("overflow_error")
    ELSE init_total_from((total * Head(shape)) % (SizeMax + 1), Tail(shape))

init_from_shape_total(shape) ==
    IF HasZero(shape) THEN Err("invalid_argument") ELSE init_total_from(1, shape)

SShapes == SeqsUpTo(0..SMaxDim, SMaxRank)

InitSize ==
    /\ pc = "call"
    /\ call \in {[op |-> op, shape |-> s] :
                    op \in {"total_size", "compute_size", "ndarray", "legacy_ndarray"},
                    s \in SShapes}
    /\ ret = NoRet
    /\ IdleHeap

\* n = total_size(shape), core/shape.hpp.
DoTotalSize ==
    /\ pc = "call" /\ call.op = "total_size"
    /\ ret' = checked_total_size(call.shape)
    /\ pc' = "done"
    /\ UNCHANGED <<call, build, arrs, heap, last>>

\* n = compute_size(shape), utils.hpp.
DoComputeSize ==
    /\ pc = "call" /\ call.op = "compute_size"
    /\ ret' = Ok(wrapping_compute_size(call.shape))
    /\ pc' = "done"
    /\ UNCHANGED <<call, build, arrs, heap, last>>

\* ndarray<T> a(shape) of core/ndarray.hpp; n = a.size().
DoConstruct ==
    /\ pc = "call" /\ call.op = "ndarray"
    /\ ret' = init_from_shape_total(call.shape)
    /\ pc' = "done"
    /\ UNCHANGED <<call, build, arrs, heap, last>>

\* ndarray<T> a(shape) of ndarray.hpp; n = a.size(), size_ being
\* compute_size(shape).
DoLegacyConstruct ==
    /\ pc = "call" /\ call.op = "legacy_ndarray"
    /\ ret' = Ok(wrapping_compute_size(call.shape))
    /\ pc' = "done"
    /\ UNCHANGED <<call, build, arrs, heap, last>>

NextSize == DoTotalSize \/ DoComputeSize \/ DoConstruct \/ DoLegacyConstruct

SpecSize == InitSize /\ [][NextSize]_vars

\* The mathematical product of the dimensions.
RECURSIVE Product(_)
Product(shape) == IF shape = <<>> THEN 1 ELSE Head(shape) * Product(Tail(shape))

\* C18: total_size returns the exact product of the dimensions whenever it
\* is below 2^w and fails with the overflow error exactly when it is not;
\* no element-count computation returns a product wrapped modulo 2^w.
C18_ElementCount ==
    (pc = "done" /\ call.op \in {"total_size", "compute_size", "ndarray",
                                 "legacy_ndarray"})
        => /\ ret.err = "none" => ret.val = Product(call.shape)
           /\ call.op = "total_size"
                 => IF Product(call.shape) <= SizeMax
                    THEN ret = Ok(Product(call.shape))
                    ELSE ret = Err("overflow_error")

\* --------------------------------------------- specification SpecCreate
\* Creation of an array from a shape: ndarray(shape, init) of
\* core/ndarray.hpp and ndarray(const Shape&) of ndarray.hpp, on shapes of
\* any rank from 0 whose dimensions may be 0.
CMaxRank == 3
CMaxDim == 2

CShapes == SeqsUpTo(0..CMaxDim, CMaxRank)

Fills == {0, 7}

\* core/ndarray.hpp init_from_shape(shape, init): a zero dimension is
\* rejected, the buffer gets the product of the dimensions copies of init
\* (one for the empty shape), and compute_strides() the row-major strides.
init_from_shape(shape, init) ==
    IF HasZero(shape) THEN Err("invalid_argument")
    ELSE Ok(FreshArray(shape, [i \in 1..compute_size(shape) |-> init]))

\* ndarray.hpp ndarray(const Shape& shape): size_ = compute_size(shape),
\* no test of the shape; size_ elements T{0}, no buffer when size_ is 0.
legacy_ndarray(shape) == Ok(FreshArray(shape, Zeros(compute_size(shape))))

InitCreate ==
    /\ pc = "call"
    /\ call \in {[op |-> "ndarray", impl |-> "core", shape |-> s, init |-> v] :
                    s \in CShapes, v \in Fills}
                \cup {[op |-> "ndarray", impl |-> "legacy", shape |-> s,
                       init |-> Zeros(1)[1]] : s \in CShapes}
    /\ ret = NoRet
    /\ IdleHeap

\* ndarray<T> a(shape, init), core/ndarray.hpp.
DoCreate ==
    /\ pc = "call" /\ call.op = "ndarray" /\ call.impl = "core"
    /\ ret' = init_from_shape(call.shape, call.init)
    /\ pc' = "done"
    /\ UNCHANGED <<call, build, arrs, heap, last>>

\* ndarray<T> a(shape), ndarray.hpp.
DoLegacyCreate ==
    /\ pc = "call" /\ call.op = "ndarray" /\ call.impl = "legacy"
    /\ ret' = legacy_ndarray(call.shape)
    /\ pc' = "done"
    /\ UNCHANGED <<call, build, arrs, heap, last>>

NextCreate == DoCreate \/ DoLegacyCreate

SpecCreate == InitCreate /\ [][NextCreate]_vars

RowMajor(A) ==
    \A i \in 1..Len(A.shape) :
        A.strides[i] = IF i = Len(A.shape) THEN 1
                       ELSE A.strides[i + 1] * A.shape[i + 1]

\* C19: creation from a shape fails with the invalid-shape error when the
\* shape is empty or has a zero dimension; an array it returns has rank
\* >= 1, every dimension > 0, product(shape) elements all equal to the
\* fill value, and row-major strides.
C19_Creation ==
    (pc = "done" /\ call.op = "ndarray")
        => /\ (call.shape = <<>> \/ HasZero(call.shape))
                 => ret.err = "invalid_argument"
           /\ ret.err = "none"
                 => /\ Len(ret.val.shape) >= 1
                    /\ \A i \in 1..Len(ret.val.shape) : ret.val.shape[i] > 0
                    /\ ret.val.shape = call.shape
                    /\ Len(ret.val.data) = Product(call.shape)
                    /\ \A i \in DOMAIN ret.val.data : ret.val.data[i] = call.init
                    /\ Len(ret.val.strides) = Len(call.shape)
                    /\ RowMajor(ret.val)

\* -------------------------------------------- specification SpecReshape
\* reshape(A, S) of core/reshape.hpp for fresh and transposed arrays A
\* and every S of rank 0..VMaxRank with dimensions 0..VMaxDim.
ReshapeTargets == SeqsUpTo(0..VMaxDim, VMaxRank)

InitReshape ==
    /\ pc = "call"
    /\ call \in {[op |-> "reshape", A |-> v.A, S |-> S] :
                    v \in UNION {{[A |-> PermutedView(s, q)] : q \in Perms(Len(s))} :
                                   s \in VShapes},
                    S \in ReshapeTargets}
    /\ ret = NoRet
    /\ IdleHeap

\* B = reshape(A, S).
DoReshape ==
    /\ pc = "call" /\ call.op = "reshape"
    /\ ret' = reshape(call.A, call.S)
    /\ pc' = "done"
    /\ UNCHANGED <<call, build, arrs, heap, last>>

NextReshape == DoReshape

SpecReshape == InitReshape /\ [][NextReshape]_vars

\* C20: reshape(A, S) fails with an error when S is empty, has a zero
\* dimension, or product(S) differs from A.size(); in every other case it
\* returns an array of shape S with row-major strides over A's buffer.
C20_Reshape ==
    (pc = "done" /\ call.op = "reshape")
        => IF \/ call.S = <<>>
              \/ HasZero(call.S)
              \/ Product(call.S) # Len(call.A.data)
           THEN ret.err # "none"
           ELSE /\ ret.err = "none"
                /\ ret.alias
                /\ ret.val.shape = call.S
                /\ RowMajor(ret.val)
                /\ ret.val.data = call.A.data

\* ------------------------------------------ specification SpecTranspose
\* transpose(A, axes) of core/ndarray.hpp for fresh arrays and reversed
\* views A and every axes vector of length 0..VMaxRank with entries
\* 0..VMaxRank, permutation or not.
ReversePerm(n) == [i \in 1..n |-> n - i]

AxesVectors == SeqsUpTo(0..VMaxRank, VMaxRank)

InitTranspose ==
    /\ pc = "call"
    /\ call \in {[op |-> "transpose", A |-> v.A, axes |-> axes] :
                    v \in UNION {{[A |-> PermutedView(s, q)] :
                                    q \in {IdentityPerm(Len(s)), ReversePerm(Len(s))}} :
                                   s \in VShapes},
                    axes \in AxesVectors}
    /\ ret = NoRet
    /\ IdleHeap

\* B = transpose(A, axes).
DoTranspose ==
    /\ pc = "call" /\ call.op = "transpose"
    /\ ret' = transpose(call.A, call.axes)
    /\ pc' = "done"
    /\ UNCHANGED <<call, build, arrs, heap, last>>

NextTranspose == DoTranspose

SpecTranspose == InitTranspose /\ [][NextTranspose]_vars

\* axes has rank entries forming a bijection on 0..rank-1.
Bijection(axes, rank) ==
    /\ Len(axes) = rank
    /\ \A k \in 0..(rank - 1) : Cardinality({i \in 1..Len(axes) : axes[i] = k}) = 1

\* The index of A that index j of transpose(A, axes) denotes: its entry
\* on axis axes[i] is j[i].
SourceIndex(j, axes) ==
    [k \in 1..Len(axes) |-> j[CHOOSE i \in 1..Len(axes) : axes[i] = k - 1]]

\* C21: transpose(A, axes) fails with the invalid-permutation error unless
\* axes is a bijection on 0..rank-1 with rank entries; on success the
\* result shares A's buffer unchanged, shape[i] = A.shape[axes[i]],
\* stride[i] = A.stride[axes[i]], and its element at (j0, ..., jk) is the
\* element of A whose index on axis axes[i] is ji.
C21_Transpose ==
    (pc = "done" /\ call.op = "transpose")
        => IF Bijection(call.axes, Len(call.A.shape))
           THEN /\ ret.err = "none"
                /\ ret.alias
                /\ ret.val.data = call.A.data
                /\ \A i \in 1..Len(call.axes) :
                     /\ ret.val.shape[i] = call.A.shape[call.axes[i] + 1]
                     /\ ret.val.strides[i] = call.A.strides[call.axes[i] + 1]
                /\ \A j \in Indices(ret.val.shape) :
                     Elem(ret.val, j) = Elem(call.A, SourceIndex(j, call.axes))
           ELSE ret.err = "invalid_argument"

\* A reversed view of rank 3 has been transposed by a permutation that is
\* neither the identity nor its own inverse.
C21_Witness ==
    /\ pc = "done" /\ call.op = "transpose"
    /\ call.A.shape = <<2, 1, 2>> /\ call.A.strides = <<1, 2, 2>>
    /\ call.axes = <<1, 2, 0>>
    /\ ret.err = "none" /\ ret.val.shape = <<1, 2, 2>>

\* -------------------------------------------- specification SpecSqueeze
\* squeeze(A, axis) of core/reshape.hpp for fresh arrays and reversed
\* views, axis = -1 (every size-1 axis) and axis = 0..VMaxRank.
InitSqueeze ==
    /\ pc = "call"
    /\ call \in {[op |-> "squeeze", A |-> v.A, axis |-> axis] :
                    v \in UNION {{[A |-> PermutedView(s, q)] :
                                    q \in {IdentityPerm(Len(s)), ReversePerm(Len(s))}} :
                                   s \in VShapes},
                    axis \in -1..VMaxRank}
    /\ ret = NoRet
    /\ IdleHeap

\* B = squeeze(A, axis).
DoSqueeze ==
    /\ pc = "call" /\ call.op = "squeeze"
    /\ ret' = squeeze(call.A, call.axis)
    /\ pc' = "done"
    /\ UNCHANGED <<call, build, arrs, heap, last>>

NextSqueeze == DoSqueeze

SpecSqueeze == InitSqueeze /\ [][NextSqueeze]_vars

NotOne(d) == d # 1

\* The shape squeeze is to return: without the targeted axis, or without
\* every size-1 axis.
Squeezed(shape, axis) ==
    IF axis >= 0
    THEN [i \in 1..(Len(shape) - 1) |-> shape[IF i <= axis THEN i ELSE i + 1]]
    ELSE SelectSeq(shape, NotOne)

InitSlice ==
    /\ pc = "call"
    /\ call \in {[op |-> "slice", A |-> v.A, row_start |-> r[1], row_end |-> r[2],
                  col_start |-> r[3], col_end |-> r[4]] :
                    v \in UNION {{[A |-> PermutedView(s, q)] : q \in Perms(Len(s))} :
                                   s \in {t \in KShapes : Len(t) = 2}},
                    r \in [1..4 -> 0..(KMaxDim + 1)]}
    /\ ret = NoRet
    /\ IdleHeap

\* B = slice(A, row_start, row_end, col_start, col_end).
DoSlice ==
    /\ pc = "call" /\ call.op = "slice"
    /\ ret' = slice(call.A, call.row_start, call.row_end,
                    call.col_start, call.col_end)
    /\ pc' = "done"
    /\ UNCHANGED <<call, build, arrs, heap, last>>

NextSlice == DoSlice

SpecSlice == InitSlice /\ [][NextSlice]_vars

\* C23: for a 2-D array A and ranges with row_start <= row_end <= rows and
\* col_start <= col_end <= cols, slice succeeds and returns an independent
\* copy B of shape {row_end - row_start, col_end - col_start} with
\* B(i, j) = A(i + row_start, j + col_start); for every other range it
\* fails with an error.
C23_Slice ==
    (pc = "done" /\ call.op = "slice")
        => IF /\ call.row_start <= call.row_end
              /\ call.row_end <= call.A.shape[1]
              /\ call.col_start <= call.col_end
              /\ call.col_end <= call.A.shape[2]
           THEN /\ ret.err = "none"
                /\ ~ret.alias
                /\ ret.val.shape = <<call.row_end - call.row_start,
                                     call.col_end - call.col_start>>
                /\ \A ij \in Indices(ret.val.shape) :
                     Elem(ret.val, ij)
                       = Elem(call.A, <<ij[1] + call.row_start,
                                        ij[2] + call.col_start>>)
           ELSE ret.err # "none"

\* ------------------------------------------ specification SpecIndexArgs
\* flatten_index and unravel_index of utils.hpp on arguments of any
\* lengths.  Neither function tests its arguments.  strides[i] with i
\* beyond the end of the vector is an out-of-bounds read: the call either
\* crashes or goes on with whatever value the read yields.
StrideAt(strides, i, garbage) == IF i <= Len(strides) THEN strides[i] ELSE garbage

\* flatten_index: flat_idx += indices[i] * strides[i] for every i below
\* indices.size().
RECURSIVE flatten_index_from(_, _, _, _)
flatten_index_from(i, indices, strides, garbage) ==
    IF i > Len(indices) THEN 0
    ELSE indices[i] * StrideAt(strides, i, garbage)
         + flatten_index_from(i + 1, indices, strides, garbage)

\* unravel_index: indices[i] = flat_idx / strides[i]; flat_idx %= strides[i]
\* for every i below shape.size().
RECURSIVE unravel_index_from(_, _, _, _, _)
unravel_index_from(i, flat_idx, shape, strides, garbage) ==
    IF i > Len(shape) THEN <<>>
    ELSE LET st == StrideAt(strides, i, garbage)
         IN  <<flat_idx \div st>>
             \o unravel_index_from(i + 1, flat_idx % st, shape, strides, garbage)

\* The values an out-of-bounds read of a stride may yield, when the call
\* survives it and the division by it.
Garbage == 1..2

IndexVectors == SeqsUpTo(0..(BMaxDim - 1), BMaxRank + 1)

InitIndexArgs ==
    /\ pc = "call"
    /\ call \in {[op |-> "flatten_index", indices |-> idx,
                  strides |-> compute_strides(s)] :
                    idx \in IndexVectors, s \in BShapes}
                \cup {[op |-> "unravel_index", flat_idx |-> k, shape |-> s,
                       strides |-> compute_strides(t)] :
                    k \in 0..(BMaxDim * BMaxDim + 1), s \in BShapes, t \in BShapes}
    /\ ret = NoRet
    /\ IdleHeap

\* k = flatten_index(indices, strides).
DoFlattenIndex ==
    /\ pc = "call" /\ call.op = "flatten_index"
    /\ \/ \E garbage \in Garbage :
            ret' = Ok(flatten_index_from(1, call.indices, call.strides, garbage))
       \/ /\ Len(call.indices) > Len(call.strides)
          /\ ret' = Err("crash")
    /\ pc' = "done"
    /\ UNCHANGED <<call, build, arrs, heap, last>>

\* idx = unravel_index(flat_idx, shape, strides).
DoUnravelIndex ==
    /\ pc = "call" /\ call.op = "unravel_index"
    /\ \/ \E garbage \in Garbage :
            ret' = Ok(unravel_index_from(1, call.flat_idx, call.shape,
                                         call.strides, garbage))
       \/ /\ Len(call.shape) > Len(call.strides)
          /\ ret' = Err("crash")
    /\ pc' = "done"
    /\ UNCHANGED <<call, build, arrs, heap, last>>

NextIndexArgs == DoFlattenIndex \/ DoUnravelIndex

SpecIndexArgs == InitIndexArgs /\ [][NextIndexArgs]_vars

\* The call ended in an exception the caller can catch.
Rejected == ret.err \notin {"none", "crash"}

\* C24: flatten_index fails with a rank-mismatch error when the number of
\* indices differs from the number of strides; unravel_index fails with
\* an error when the lengths of shape and strides differ or the offset is
\* not below product(shape).  Neither returns a value for such input.
C24_IndexArguments ==
    /\ (pc = "done" /\ call.op = "flatten_index"
          /\ Len(call.indices) # Len(call.strides)) => Rejected
    /\ (pc = "done" /\ call.op = "unravel_index"
          /\ (Len(call.shape) # Len(call.strides)
                \/ call.flat_idx >= Product(call.shape))) => Rejected

\* ----------------------------------------------- specification SpecMean
\* The mean entry points: mean and mean_axis of ops/reduction.hpp, mean of
\* operations.hpp (element type double) and mean over a std::vector of
\* core/utils.hpp, on buffers of 0..MMaxLen elements.
MMaxLen == 3

\* sum: the elements added up from T(0).
RECURSIVE sum(_)
sum(data) == IF data = <<>> THEN 0 ELSE Head(data) + sum(Tail(data))

\* ops/reduction.hpp mean(A).
mean(A) ==
    IF Len(A.data) = 0 THEN Err("domain_error")
    ELSE Ok(Rat(sum(A.data), Len(A.data)))

\* operations.hpp mean(arr): T{0} for an array of size 0.
operations_mean(arr) ==
    IF Len(arr.data) = 0 THEN Ok(RatOf(0))
    ELSE Ok(Rat(sum(arr.data), Len(arr.data)))

\* core/utils.hpp mean(data): 0.0 for an empty vector.
vector_mean(data) ==
    IF data = <<>> THEN Ok(RatOf(0))
    ELSE Ok(Rat(sum(data), Len(data)))

\* ops/reduction.hpp mean_axis(A, axis) for axis >= 0: sum_axis divided by
\* the size of the axis.
mean_axis(A, axis) ==
    IF Len(A.data) = 0 THEN Err("domain_error")
    ELSE IF axis >= Len(A.shape) THEN Err("invalid_argument")
    ELSE LET sum_result == reduce_axis(A, axis, "sum_axis")
             axis_size == A.shape[axis + 1]
         IN  IF sum_result.err # "none" THEN sum_result
             ELSE Ok([sum_result.val EXCEPT
                        !.data = [i \in DOMAIN @ |-> Rat(@[i], axis_size)]])

\* The buffers, and the 1-D array over each: an array of size 0 is the
\* default-constructed one (core/ndarray.hpp) or one of shape {0}
\* (ndarray.hpp).
MeanData == SeqsUpTo(0..2, MMaxLen)

VectorArray(data, impl) ==
    IF data = <<>> /\ impl = "core"
    THEN [shape |-> <<>>, strides |-> <<>>, data |-> <<>>]
    ELSE FreshArray(<<Len(data)>>, data)

InitMean ==
    /\ pc = "call"
    /\ call \in {[op |-> op, data |-> d] :
                    op \in {"mean", "operations_mean", "vector_mean", "mean_axis"},
                    d \in MeanData}
    /\ ret = NoRet
    /\ IdleHeap

DoMean ==
    /\ pc = "call" /\ call.op = "mean"
    /\ ret' = mean(VectorArray(call.data, "core"))
    /\ pc' = "done"
    /\ UNCHANGED <<call, build, arrs, heap, last>>

DoOperationsMean ==
    /\ pc = "call" /\ call.op = "operations_mean"
    /\ ret' = operations_mean(VectorArray(call.data, "legacy"))
    /\ pc' = "done"
    /\ UNCHANGED <<call, build, arrs, heap, last>>

DoVectorMean ==
    /\ pc = "call" /\ call.op = "vector_mean"
    /\ ret' = vector_mean(call.data)
    /\ pc' = "done"
    /\ UNCHANGED <<call, build, arrs, heap, last>>

\* mean_axis(A, 0) on a 1-D array.
DoMeanAxis ==
    /\ pc = "call" /\ call.op = "mean_axis"
    /\ ret' = mean_axis(VectorArray(call.data, "core"), 0)
    /\ pc' = "done"
    /\ UNCHANGED <<call, build, arrs, heap, last>>

NextMean == DoMean \/ DoOperationsMean \/ DoVectorMean \/ DoMeanAxis

SpecMean == InitMean /\ [][NextMean]_vars

\* The sum of the elements over their number.
Average(data) ==
    LET term(i) == RatOf(data[i])
    IN  RDiv(RSumOver(term, DOMAIN data), RatOf(Len(data)))

\* C25: every mean entry point fails with the empty-input error on an
\* input of size 0, and returns sum / count on a non-empty input.
C25_Mean ==
    (pc = "done" /\ call.op \in {"mean", "operations_mean", "vector_mean",
                                 "mean_axis"})
        => IF call.data = <<>> THEN ret.err = "domain_error"
           ELSE /\ ret.err = "none"
                /\ IF call.op = "mean_axis"
                   THEN ret.val.data = <<Average(call.data)>>
                   ELSE ret.val = Average(call.data)

\* ---------------------------------------------- specification SpecEigen
\* eig (linalg/matrix.hpp) computed in exact arithmetic.  std::sqrt is
\* modelled on the squares of fractions only, and the matrices of the
\* specification are those for which every norm of the Gram-Schmidt steps
\* is such a square: symmetric matrices with at most one non-zero entry in
\* each row, the entries being integers.
XMaxN == 2
XMaxVal == 2
XMaxIter == 3

ISqrt(m) == CHOOSE k \in 0..m : k * k = m

\* std::sqrt(x) for x the square of a fraction.
RSqrt(x) == [n |-> ISqrt(x.n), d |-> ISqrt(x.d)]

\* x < t for x >= 0 and a tolerance 0 < t <= 1, without leaving the
\* integers of the model.
BelowTolerance(x, t) == IF x.n >= x.d THEN FALSE ELSE x.n * t.d < t.n * x.d

\* The sum of f[i] over i = 0..n-1.
RECURSIVE RSumTo(_, _)
RSumTo(f, n) == IF n = 0 THEN RatOf(0) ELSE RAdd(RSumTo(f, n - 1), f[n - 1])

MatrixZero(n) == [ij \in (0..(n - 1)) \X (0..(n - 1)) |-> RatOf(0)]

MatrixIdentity(n) ==
    [ij \in (0..(n - 1)) \X (0..(n - 1)) |-> RatOf(IF ij[1] = ij[2] THEN 1 ELSE 0)]

\* The triple loops "X(i, j) += A(i, k) * B(k, j)".
MatrixProduct(A, B, n) ==
    [ij \in (0..(n - 1)) \X (0..(n - 1)) |->
        RSumTo([k \in 0..(n - 1) |-> RMul(A[<<ij[1], k>>], B[<<k, ij[2]>>])], n)]

\* eig, "Orthogonalize against previous columns": for k = k..j-1,
\* dot_prod = sum of Q(i, k) * v[i]; R(k, j) = dot_prod;
\* v[i] -= dot_prod * Q(i, k).
RECURSIVE orthogonalize(_, _, _, _, _, _)
orthogonalize(k, j, v, Q, R, n) ==
    IF k >= j THEN [v |-> v, R |-> R]
    ELSE LET dot_prod == RSumTo([i \in 0..(n - 1) |-> RMul(Q[<<i, k>>], v[i])], n)
             v_new == [i \in 0..(n - 1) |-> RSub(v[i], RMul(dot_prod, Q[<<i, k>>]))]
             R_new == [R EXCEPT ![<<k, j>>] = dot_prod]
         IN  orthogonalize(k + 1, j, v_new, Q, R_new, n)

\* eig, the Gram-Schmidt loop over the columns j..n-1 of Ak: copy the
\* column, orthogonalize, normalize with norm_v replaced by 1 when it is
\* below tol.
RECURSIVE gram_schmidt(_, _, _, _, _, _)
gram_schmidt(j, Ak, Q, R, n, tol) ==
    IF j >= n THEN [Q |-> Q, R |-> R]
    ELSE LET o == orthogonalize(0, j, [i \in 0..(n - 1) |-> Ak[<<i, j>>]], Q, R, n)
             norm == RSqrt(RSumTo([i \in 0..(n - 1) |-> RMul(o.v[i], o.v[i])], n))
             norm_v == IF BelowTolerance(norm, tol) THEN RatOf(1) ELSE norm
             Q_new == [ij \in DOMAIN Q |->
                          IF ij[2] = j THEN RDiv(o.v[ij[1]], norm_v) ELSE Q[ij]]
             R_new == [o.R EXCEPT ![<<j, j>>] = norm_v]
         IN  gram_schmidt(j + 1, Ak, Q_new, R_new, n, tol)

\* off_diag_norm: the sum of |Ak_new(i, j)| over i # j.
OffDiagNorm(M, n) ==
    RSumTo([i \in 0..(n - 1) |->
              RSumTo([j \in 0..(n - 1) |->
                        IF i # j THEN RAbs(M[<<i, j>>]) ELSE RatOf(0)], n)], n)

\* eig, one iteration of the for loop: QR-factorize Ak, Ak = R Q,
\* V = V Q; converged when off_diag_norm < tol.
eig_sweep(Ak, V, n, tol) ==
    LET qr == gram_schmidt(0, Ak, MatrixZero(n), MatrixZero(n), n, tol)
        Ak_new == MatrixProduct(qr.R, qr.Q, n)
    IN  [Ak |-> Ak_new,
         V |-> MatrixProduct(V, qr.Q, n),
         converged |-> BelowTolerance(OffDiagNorm(Ak_new, n), tol)]

\* eig, after the loop: the eigenvalues are the diagonal of Ak, as an
\* n x 1 array, the eigenvectors the columns of V.
eig_result(Ak, V, n) ==
    Ok([eigenvalues |-> FreshArray(<<n, 1>>, [i \in 1..n |-> Ak[<<i - 1, i - 1>>]]),
        eigenvectors |-> FreshArray(<<n, n>>,
                                    [i \in 1..(n * n) |->
                                        V[<<(i - 1) \div n, (i - 1) % n>>]])])

\* The involutions of 0..n-1: p(p(i)) = i.
Involutions(n) == {p \in Perms(n) : \A i \in 1..n : p[p[i] + 1] = i - 1}

\* The symmetric n x n matrices with entry vals[i] (= vals[p(i)]) at
\* (i, p(i)) and 0 elsewhere.
SymmetricInputs ==
    UNION {LET n == Len(p)
           IN  {MatrixOfRows([i \in 1..n |->
                                [j \in 1..n |->
                                    RatOf(IF j = p[i] + 1 THEN vals[i] ELSE 0)]]) :
                  vals \in {w \in [1..n -> (-XMaxVal)..XMaxVal] :
                              \A i \in 1..n : w[p[i] + 1] = w[i]}} :
           p \in UNION {Involutions(n) : n \in 1..XMaxN}}

\* The tolerances: the default 1e-10 is below every positive value of the
\* model, as is the 1e-8 of test_eig.
Tolerances == {Rat(1, 10^8)}

InitEigen ==
    /\ pc = "call"
    /\ call \in {[op |-> "eig", A |-> A, max_iter |-> mi, tol |-> t] :
                    A \in SymmetricInputs, mi \in 0..XMaxIter, t \in Tolerances}
    /\ ret = NoRet
    /\ IdleHeap

\* eig(A, max_iter, tol) up to the loop: the shape tests, Ak = A, V = I.
EigenEnter ==
    /\ pc = "call" /\ call.op = "eig"
    /\ IF Len(call.A.shape) # 2 \/ call.A.shape[1] # call.A.shape[Len(call.A.shape)]
       THEN /\ ret' = Err("invalid_argument")
            /\ pc' = "done"
       ELSE /\ ret' = [op |-> "eig", iter |-> 0, converged |-> FALSE,
                       Ak |-> MatrixOf(call.A, call.A.shape[1], call.A.shape[1]),
                       V |-> MatrixIdentity(call.A.shape[1])]
            /\ pc' = "loop"
    /\ UNCHANGED <<call, build, arrs, heap, last>>

\* One iteration of the QR loop.
EigenSweep ==
    /\ pc = "loop"
    /\ within_limit(ret.iter, call.max_iter) /\ ~ret.converged
    /\ LET r == eig_sweep(ret.Ak, ret.V, call.A.shape[1], call.tol)
       IN  ret' = [op |-> "eig", iter |-> ret.iter + 1, converged |-> r.converged,
                   Ak |-> r.Ak, V |-> r.V]
    /\ UNCHANGED <<pc, call, build, arrs, heap, last>>

\* The loop ends, at max_iter or by break, and eig returns.
EigenReturn ==
    /\ pc = "loop"
    /\ ~within_limit(ret.iter, call.max_iter) \/ ret.converged
    /\ ret' = eig_result(ret.Ak, ret.V, call.A.shape[1])
    /\ pc' = "done"
    /\ UNCHANGED <<call, build, arrs, heap, last>>

NextEigen == EigenEnter \/ EigenSweep \/ EigenReturn

SpecEigen == InitEigen /\ [][NextEigen]_vars

\* |x - y| < 1e-4.
Close(x, y) == BelowTolerance(RAbs(RSub(x, y)), Rat(1, 10^4))

\* Entry j of A v for v the column i of the eigenvector matrix.
Av(A, V, i, j) ==
    LET n == A.shape[1]
        term(k) == RMul(Elem(A, <<j, k>>), Elem(V, <<k, i>>))
    IN  RSumOver(term, 0..(n - 1))

\* C26: for a symmetric square matrix A, every pair (eigenvalue i, column
\* i of the eigenvector matrix) returned by eig satisfies A v = lambda v
\* in every entry within 1e-4.
C26_EigenPairs ==
    (pc = "done" /\ call.op = "eig" /\ call.A.shape[1] = call.A.shape[2])
        => /\ ret.err = "none"
           /\ \A i, j \in 0..(call.A.shape[1] - 1) :
                Close(Av(call.A, ret.val.eigenvectors, i, j),
                      RMul(Elem(ret.val.eigenvalues, <<i, 0>>),
                           Elem(ret.val.eigenvectors, <<j, i>>)))

\* --------------------------------------------- specification SpecDerive
\* expand_dims, squeeze and reshape applied to V = transpose(A, p) for a
\* fresh array A holding 1, 2, ... and every permutation p of its axes.
InitDerive ==
    /\ pc = "call"
    /\ call \in
         UNION {UNION {{[op |-> "expand_dims", A |-> FreshArray(s, Iota(compute_size(s))),
                         p |-> p, axis |-> k] : k \in 0..Len(s)}
                       \cup {[op |-> "squeeze", A |-> FreshArray(s, Iota(compute_size(s))),
                              p |-> p]}
                       \cup {[op |-> "reshape", A |-> FreshArray(s, Iota(compute_size(s))),
                              p |-> p, S |-> S] :
                                S \in {t \in VShapes : compute_size(t) = compute_size(s)}} :
                       p \in Perms(Len(s))} :
                s \in VShapes}
    /\ ret = NoRet
    /\ IdleHeap

\* V = transpose(A, p); W = expand_dims(V, axis).
DoExpandDimsOfView ==
    /\ pc = "call" /\ call.op = "expand_dims"
    /\ LET V == transpose(call.A, call.p).val
       IN  ret' = [V |-> V, W |-> expand_dims(V, call.axis)]
    /\ pc' = "done"
    /\ UNCHANGED <<call, build, arrs, heap, last>>

\* V = transpose(A, p); W = squeeze(V).
DoSqueezeOfView ==
    /\ pc = "call" /\ call.op = "squeeze"
    /\ LET V == transpose(call.A, call.p).val
       IN  ret' = [V |-> V, W |-> squeeze(V, -1)]
    /\ pc' = "done"
    /\ UNCHANGED <<call, build, arrs, heap, last>>

\* V = transpose(A, p); W = reshape(V, S).
DoReshapeOfView ==
    /\ pc = "call" /\ call.op = "reshape"
    /\ LET V == transpose(call.A, call.p).val
       IN  ret' = [V |-> V, W |-> reshape(V, call.S)]
    /\ pc' = "done"
    /\ UNCHANGED <<call, build, arrs, heap, last>>

NextDerive == DoExpandDimsOfView \/ DoSqueezeOfView \/ DoReshapeOfView

SpecDerive == InitDerive /\ [][NextDerive]_vars

\* The index idx with the entries on the size-1 axes of shape left out.
RECURSIVE DropOnes(_, _)
DropOnes(idx, shape) ==
    IF shape = <<>> THEN <<>>
    ELSE IF Head(shape) = 1 THEN DropOnes(Tail(idx), Tail(shape))
    ELSE <<Head(idx)>> \o DropOnes(Tail(idx), Tail(shape))

\* The position of idx in the row-major enumeration of the indices of shape.
LogicalRank(idx, shape) == flatten_index(idx, compute_strides(shape))

\* C27: for V = transpose(A, p), a view derived from V denotes V's
\* elements: expand_dims(V, k) at an index with 0 inserted at axis k is V
\* at the index, squeeze(V) at an index is V at the index with 0 on the
\* removed axes, and reshape(V, S) lists V's elements in V's row-major
\* order.
C27_DerivedViews ==
    (pc = "done" /\ call.op \in {"expand_dims", "squeeze", "reshape"}
       /\ ret.W.err = "none")
        => \A idx \in Indices(ret.V.shape) :
             LET jdx == CASE call.op = "expand_dims" ->
                               [i \in 1..(Len(idx) + 1) |->
                                   IF i <= call.axis THEN idx[i]
                                   ELSE IF i = call.axis + 1 THEN 0
                                   ELSE idx[i - 1]]
                          [] call.op = "squeeze" -> DropOnes(idx, ret.V.shape)
                          [] call.op = "reshape" ->
                               unravel_index(LogicalRank(idx, ret.V.shape),
                                             ret.W.val.shape,
                                             compute_strides(ret.W.val.shape))
             IN  Elem(ret.W.val, jdx) = Elem(ret.V, idx)

\* ---------------------------------------------- specification SpecEqual
\* operator== and operator!= of core/ndarray.hpp on pairs of arrays, each
\* a fresh array or a view with permuted axes, with elements 0 and 1.
EqMaxRank == 2
EqMaxDim == 2

EqValues == {0, 1}

\* std::equal(lhs.begin(), lhs.end(), rhs.begin()) over the two buffers;
\* reading rhs past its end is undefined and does not occur for equal
\* shapes.
std_equal(ldata, rdata) == \A i \in 1..Len(ldata) : ldata[i] = rdata[i]

\* core/ndarray.hpp operator==(lhs, rhs).
ndarray_eq(lhs, rhs) ==
    IF lhs.shape # rhs.shape THEN FALSE ELSE std_equal(lhs.data, rhs.data)

\* core/ndarray.hpp operator!=(lhs, rhs).
ndarray_ne(lhs, rhs) == ~ndarray_eq(lhs, rhs)

\* The arrays of shape s over every buffer, seen through every
\* permutation of the axes.
EqInputs ==
    UNION {UNION {{[PermutedView(s, q) EXCEPT !.data = d] :
                     d \in [1..compute_size(s) -> EqValues]} :
                  q \in Perms(Len(s))} :
           s \in {t \in SeqsUpTo(1..EqMaxDim, EqMaxRank) : Len(t) >= 1}}

InitEqual ==
    /\ pc = "call"
    /\ call \in {[op |-> op, lhs |-> l, rhs |-> r] :
                    op \in {"eq", "ne"}, l \in EqInputs, r \in EqInputs}
    /\ ret = NoRet
    /\ IdleHeap

\* lhs == rhs.
DoEq ==
    /\ pc = "call" /\ call.op = "eq"
    /\ ret' = [op |-> "eq", val |-> ndarray_eq(call.lhs, call.rhs)]
    /\ pc' = "done"
    /\ UNCHANGED <<call, build, arrs, heap, last>>

\* lhs != rhs.
DoNe ==
    /\ pc = "call" /\ call.op = "ne"
    /\ ret' = [op |-> "ne", val |-> ndarray_ne(call.lhs, call.rhs)]
    /\ pc' = "done"
    /\ UNCHANGED <<call, build, arrs, heap, last>>

NextEqual == DoEq \/ DoNe

SpecEqual == InitEqual /\ [][NextEqual]_vars

\* C28: operator== is true exactly when the operands have equal shapes and
\* equal elements at every multi-index, also for transposed views, and
\* operator!= is its negation.
C28_Equality ==
    /\ (pc = "done" /\ call.op = "eq")
          => (ret.val <=> SameArray(call.lhs, call.rhs))
    /\ (pc = "done" /\ call.op = "ne")
          => (ret.val <=> ~SameArray(call.lhs, call.rhs))

\* ------------------------------------------------ specification SpecRaw
\* The special member functions of the raw-pointer ndarray (ndarray.hpp):
\* constructors, copy and move construction, copy and move assignment
\* (also of an array to itself), the destructor, and element writes.  An
\* array variable holds shape_, strides_, data_ (0 is nullptr), size_ and
\* owns_data_; a buffer is live from new T[] to delete[], and a delete[]
\* of a buffer that is not live marks it "corrupt".
RawSlots == 2
RawBufs == 2
RawMaxLen == 2

RawVars == 1..RawSlots
RawAddrs == 1..RawBufs

RawNone == [live |-> FALSE]

\* ndarray(): no shape, null data, size 0, not owning.
raw_default ==
    [live |-> TRUE, shape_ |-> <<>>, strides_ |-> <<>>, data_ |-> 0,
     size_ |-> 0, owns_data_ |-> FALSE, moved |-> FALSE]

\* The addresses operator new[] may return.
RawFree(h) == {b \in RawAddrs : h[b].st = "free"}

\* delete[] p.
raw_delete(h, p) ==
    [h EXCEPT ![p] = IF h[p].st = "live" THEN NoBuf
                     ELSE [st |-> "corrupt", data |-> <<>>]]

\* The address that "if (owns_data_ && data_) delete[] data_;" passes to
\* delete[], 0 when it does not delete.
raw_released(x) == IF x.owns_data_ /\ x.data_ # 0 THEN x.data_ ELSE 0

\* "if (owns_data_ && data_) delete[] data_;" of the destructor and of the
\* two assignment operators.
raw_release(h, x) == IF raw_released(x) # 0 THEN raw_delete(h, x.data_) ELSE h

\* The source of a move keeping its pointer, size and ownership.
raw_moved_from_keeping(other) == [other EXCEPT !.moved = TRUE]

\* The source of a move construction or move assignment afterwards:
\* other.data_ = nullptr; other.size_ = 0; other.owns_data_ = false; its
\* shape_ and strides_ were moved out.
raw_moved_from(other) ==
    [other EXCEPT !.shape_ = <<>>, !.strides_ = <<>>, !.data_ = 0,
                  !.size_ = 0, !.owns_data_ = FALSE, !.moved = TRUE]

\* The target of a move: the fields of other.
raw_moved_to(other) == [other EXCEPT !.moved = FALSE]

\* The target of a copy, over the new buffer p (nullptr when size_ is 0).
raw_copied_to(other, p) ==
    [other EXCEPT !.data_ = p, !.owns_data_ = TRUE, !.moved = FALSE]

InitRaw ==
    /\ pc = "run"
    /\ call = NoCall
    /\ ret = NoRet
    /\ build = "legacy"
    /\ arrs = [s \in RawVars |-> RawNone]
    /\ heap = [b \in RawAddrs |-> NoBuf]
    /\ last = [op |-> "none", dst |-> 0, src |-> 0, freed |-> 0]

\* ndarray<T> x; or ndarray<T> x(Shape{n}, {1, ..., n}).
RawConstruct ==
    /\ pc = "run"
    /\ \E x \in RawVars :
         /\ ~arrs[x].live
         /\ \/ /\ arrs' = [arrs EXCEPT ![x] = raw_default]
               /\ UNCHANGED heap
            \/ \E n \in 1..RawMaxLen, p \in RawFree(heap) :
                 /\ arrs' = [arrs EXCEPT ![x] =
                               [live |-> TRUE, shape_ |-> <<n>>,
                                strides_ |-> compute_strides(<<n>>), data_ |-> p,
                                size_ |-> compute_size(<<n>>), owns_data_ |-> TRUE,
                                moved |-> FALSE]]
                 /\ heap' = [heap EXCEPT ![p] = [st |-> "live", data |-> Iota(n)]]
         /\ last' = [op |-> "construct", dst |-> x, src |-> 0, freed |-> 0]
    /\ UNCHANGED <<pc, call, ret, build>>

\* ndarray<T> x(y): a new buffer holding a copy of y's elements when
\* size_ > 0, nullptr otherwise.
RawCopyConstruct ==
    /\ pc = "run"
    /\ \E x, y \in RawVars :
         /\ ~arrs[x].live /\ arrs[y].live
         /\ IF arrs[y].size_ > 0
            THEN \E p \in RawFree(heap) :
                   /\ arrs' = [arrs EXCEPT ![x] = raw_copied_to(arrs[y], p)]
                   /\ heap' = [heap EXCEPT ![p] =
                                 [st |-> "live", data |-> heap[arrs[y].data_].data]]
            ELSE /\ arrs' = [arrs EXCEPT ![x] = raw_copied_to(arrs[y], 0)]
                 /\ UNCHANGED heap
         /\ last' = [op |-> "copy_construct", dst |-> x, src |-> y, freed |-> 0]
    /\ UNCHANGED <<pc, call, ret, build>>

\* ndarray<T> x(std::move(y)).
RawMoveConstruct ==
    /\ pc = "run"
    /\ \E x, y \in RawVars :
         /\ ~arrs[x].live /\ arrs[y].live
         /\ arrs' = [arrs EXCEPT ![x] = raw_moved_to(arrs[y]),
                                 ![y] = raw_moved_from(arrs[y])]
         /\ last' = [op |-> "move_construct", dst |-> x, src |-> y, freed |-> 0]
    /\ UNCHANGED <<pc, call, ret, build, heap>>

\* x = y: nothing when this == &other; otherwise release x's buffer and
\* copy y into a new one.
RawCopyAssign ==
    /\ pc = "run"
    /\ \E x, y \in RawVars :
         /\ arrs[x].live /\ arrs[y].live
         /\ IF x = y THEN UNCHANGED <<arrs, heap>>
            ELSE LET released == raw_release(heap, arrs[x])
                 IN  IF arrs[y].size_ > 0
                     THEN \E p \in RawFree(released) :
                            /\ arrs' = [arrs EXCEPT ![x] = raw_copied_to(arrs[y], p)]
                            /\ heap' = [released EXCEPT ![p] =
                                          [st |-> "live",
                                           data |-> released[arrs[y].data_].data]]
                     ELSE /\ arrs' = [arrs EXCEPT ![x] = raw_copied_to(arrs[y], 0)]
                          /\ heap' = released
         /\ last' = [op |-> "copy_assign", dst |-> x, src |-> y,
                      freed |-> IF x = y THEN 0 ELSE raw_released(arrs[x])]
    /\ UNCHANGED <<pc, call, ret, build>>

\* x = std::move(y): nothing when this == &other; otherwise release x's
\* buffer, take y's fields and leave y empty.
RawMoveAssign ==
    /\ pc = "run"
    /\ \E x, y \in RawVars :
         /\ arrs[x].live /\ arrs[y].live
         /\ IF x = y THEN UNCHANGED <<arrs, heap>>
            ELSE /\ heap' = raw_release(heap, arrs[x])
                 /\ arrs' = [arrs EXCEPT ![x] = raw_moved_to(arrs[y]),
                                         ![y] = raw_moved_from(arrs[y])]
         /\ last' = [op |-> "move_assign", dst |-> x, src |-> y,
                      freed |-> IF x = y THEN 0 ELSE raw_released(arrs[x])]
    /\ UNCHANGED <<pc, call, ret, build>>

\* ~ndarray() of x.
RawDestroy ==
    /\ pc = "run"
    /\ \E x \in RawVars :
         /\ arrs[x].live
         /\ heap' = raw_release(heap, arrs[x])
         /\ arrs' = [arrs EXCEPT ![x] = RawNone]
         /\ last' = [op |-> "destroy", dst |-> x, src |-> 0,
                      freed |-> raw_released(arrs[x])]
    /\ UNCHANGED <<pc, call, ret, build>>

\* x[i] = T{} for i < size_.
RawWrite ==
    /\ pc = "run"
    /\ \E x \in RawVars :
         /\ arrs[x].live /\ arrs[x].data_ # 0
         /\ heap[arrs[x].data_].st = "live"
         /\ \E i \in 1..arrs[x].size_ :
              heap' = [heap EXCEPT ![arrs[x].data_].data[i] = 0]
         /\ last' = [op |-> "write", dst |-> x, src |-> 0, freed |-> 0]
    /\ UNCHANGED <<pc, call, ret, build, arrs>>

NextRaw ==
    \/ RawConstruct \/ RawCopyConstruct \/ RawMoveConstruct
    \/ RawCopyAssign \/ RawMoveAssign \/ RawDestroy \/ RawWrite

SpecRaw == InitRaw /\ [][NextRaw]_vars

\* The live arrays that own the buffer b.
RawOwners(b) ==
    {x \in RawVars : arrs[x].live /\ arrs[x].data_ = b /\ arrs[x].owns_data_}

\* Ownership: no delete[] ever hit a buffer that was not live, a live
\* buffer has exactly one owner, a non-null data_ is the address of a live
\* buffer of size_ elements, and a moved-from array is empty.
RawOwnership ==
    /\ \A b \in RawAddrs :
         /\ heap[b].st # "corrupt"
         /\ heap[b].st = "live" => Cardinality(RawOwners(b)) = 1
    /\ \A x \in RawVars :
         arrs[x].live =>
            /\ arrs[x].data_ # 0 =>
                 /\ heap[arrs[x].data_].st = "live"
                 /\ arrs[x].owns_data_
                 /\ Len(heap[arrs[x].data_].data) = arrs[x].size_
            /\ arrs[x].moved =>
                 arrs[x].data_ = 0 /\ arrs[x].size_ = 0 /\ ~arrs[x].owns_data_

\* The elements of the array x when the arrays are a and the heap is h.
RawElements(a, h, x) == IF a[x].data_ = 0 THEN <<>> ELSE h[a[x].data_].data

\* A copy holds the elements of its source, in a buffer of its own.
RawCopied ==
    (last'.op \in {"copy_construct", "copy_assign"})
        => /\ arrs'[last'.dst].shape_ = arrs[last'.src].shape_
           /\ arrs'[last'.dst].size_ = arrs[last'.src].size_
           /\ RawElements(arrs', heap', last'.dst) = RawElements(arrs, heap, last'.src)
           /\ RawElements(arrs', heap', last'.src) = RawElements(arrs, heap, last'.src)
           /\ (last'.dst # last'.src /\ arrs[last'.src].size_ > 0)
                 => arrs'[last'.dst].data_ # arrs'[last'.src].data_

\* A write through one array changes the elements of no other array.
RawWriteLocal ==
    (last'.op = "write")
        => \A y \in RawVars \ {last'.dst} :
              arrs[y].live => RawElements(arrs', heap', y) = RawElements(arrs, heap, y)

\* C29: with the raw-pointer ndarray, after any sequence of construction,
\* copy and move construction, copy and move assignment (also to itself)
\* and destruction, every allocated buffer is owned by exactly one live
\* array until it is freed and is freed exactly once, a copy is deep
\* (writes to it never change the original), and a moved-from array has
\* null data, size 0 and owns nothing.
C29_RawOwnership == []RawOwnership /\ [][RawCopied /\ RawWriteLocal]_vars

\* A move assignment onto an array that owned a buffer: the buffer was
\* freed, the target holds the source's buffer and the source is empty.
C29_Witness ==
    /\ last.op = "move_assign" /\ last.dst # last.src
    /\ last.freed # 0 /\ heap[last.freed].st = "free"
    /\ arrs[last.dst].data_ # 0 /\ heap[arrs[last.dst].data_].st = "live"
    /\ arrs[last.src].moved

\* ---------------------------------------- specification SpecSmallVector
\* small_vector<T, N> (core/utils.hpp) under push_back, pop_back, resize
\* and clear, next to a std::vector given the same operations.  The object
\* is size_, is_small_ and the union of small_data_ (N slots) and
\* large_data_; the member that is not active is written <<>>.  A slot of
\* small_data_ that was never assigned holds Indeterminate.
SvN == 2
SvMaxLen == 5

SvValues == {1, 2}
Indeterminate == 0

\* small_vector(): size_ = 0, is_small_ = true.
sv_default ==
    [size_ |-> 0, is_small_ |-> TRUE,
     small_data_ |-> [i \in 1..SvN |-> Indeterminate], large_data_ |-> <<>>]

\* operator[](pos), pos 0-based.
sv_at(v, pos) == IF v.is_small_ THEN v.small_data_[pos + 1] ELSE v.large_data_[pos + 1]

\* clear(): size_ = 0; is_small_ = true.
sv_clear(v) ==
    [v EXCEPT !.size_ = 0, !.is_small_ = TRUE,
              !.small_data_ = IF v.is_small_ THEN v.small_data_
                              ELSE [i \in 1..SvN |-> Indeterminate],
              !.large_data_ = <<>>]

\* push_back(value).  At size_ == N the N slots and the value go to a
\* vector that is move-assigned to large_data_.
sv_push_back(v, value) ==
    IF v.is_small_ /\ v.size_ < SvN
    THEN [v EXCEPT !.small_data_[v.size_ + 1] = value, !.size_ = v.size_ + 1]
    ELSE IF v.is_small_ /\ v.size_ = SvN
    THEN [v EXCEPT !.large_data_ = Append(v.small_data_, value),
                   !.small_data_ = <<>>,
                   !.is_small_ = FALSE, !.size_ = v.size_ + 1]
    ELSE [v EXCEPT !.large_data_ = Append(v.large_data_, value),
                   !.size_ = v.size_ + 1]

\* The number of elements pop_back or resize copies into the N slots of
\* the temporary std::array when it converts to the inline form.
sv_copied(v, op, count) ==
    IF op = "pop_back" /\ v.size_ > 0 /\ ~v.is_small_ /\ v.size_ - 1 <= SvN
    THEN Len(v.large_data_)
    ELSE IF op = "resize" /\ count <= SvN /\ ~v.is_small_
    THEN Min(v.size_, count)
    ELSE 0

\* pop_back(): --size_; when the vector form is left with size_ <= N,
\* std::copy(large_data_.begin(), large_data_.end(), temp.begin()) and
\* small_data_ = temp.  The elements that fit in temp are kept here.
sv_pop_back(v) ==
    IF v.size_ = 0 THEN v
    ELSE IF ~v.is_small_ /\ v.size_ - 1 <= SvN
    THEN [v EXCEPT !.size_ = v.size_ - 1,
                   !.small_data_ = [i \in 1..SvN |->
                                       IF i <= Len(v.large_data_) THEN v.large_data_[i]
                                       ELSE Indeterminate],
                   !.large_data_ = <<>>,
                   !.is_small_ = TRUE]
    ELSE [v EXCEPT !.size_ = v.size_ - 1]

\* std::vector::resize(count, value).
vector_resize(s, count, value) ==
    [i \in 1..count |-> IF i <= Len(s) THEN s[i] ELSE value]

\* resize(count, value).
sv_resize(v, count, value) ==
    IF count <= SvN
    THEN IF ~v.is_small_
         THEN LET copy_count == Min(v.size_, count)
              IN  [v EXCEPT !.small_data_ =
                                [i \in 1..SvN |->
                                    IF i <= copy_count THEN v.large_data_[i]
                                    ELSE IF i <= count THEN value
                                    ELSE Indeterminate],
                            !.large_data_ = <<>>,
                            !.is_small_ = TRUE, !.size_ = count]
         ELSE [v EXCEPT !.small_data_ =
                            [i \in 1..SvN |->
                                IF i > v.size_ /\ i <= count THEN value
                                ELSE v.small_data_[i]],
                        !.size_ = count]
    ELSE IF v.is_small_
         THEN [v EXCEPT !.large_data_ =
                            vector_resize(SubSeq(v.small_data_, 1, v.size_), count, value),
                        !.small_data_ = <<>>,
                        !.is_small_ = FALSE, !.size_ = count]
         ELSE [v EXCEPT !.large_data_ = vector_resize(v.large_data_, count, value),
                        !.size_ = count]

\* The operation assigns to large_data_ while small_data_ is the active
\* member of the union, or copies more than N elements into the
\* temporary array: undefined behaviour.
sv_undefined(v, op, count) ==
    \/ op = "push_back" /\ v.is_small_ /\ v.size_ = SvN
    \/ op = "resize" /\ count > SvN /\ v.is_small_
    \/ sv_copied(v, op, count) > SvN

\* heap is the small_vector, arrs the std::vector.
InitSmallVector ==
    /\ pc = "run"
    /\ call = NoCall
    /\ ret = NoRet
    /\ build = "core"
    /\ heap = sv_default
    /\ arrs = <<>>
    /\ last = [op |-> "none", copied |-> 0]

\* An operation that is undefined behaviour continues with the result
\* written above or ends the program.
SvOutcome(op, count) ==
    /\ pc' \in IF sv_undefined(heap, op, count) THEN {"run", "crashed"} ELSE {"run"}
    /\ last' = [op |-> op, copied |-> sv_copied(heap, op, count)]
    /\ UNCHANGED <<call, ret, build>>

PushBack ==
    /\ pc = "run"
    /\ Len(arrs) < SvMaxLen /\ Len(heap.large_data_) < SvMaxLen
    /\ \E value \in SvValues :
         /\ heap' = sv_push_back(heap, value)
         /\ arrs' = Append(arrs, value)
    /\ SvOutcome("push_back", 0)

PopBack ==
    /\ pc = "run"
    /\ heap' = sv_pop_back(heap)
    /\ arrs' = IF arrs = <<>> THEN arrs ELSE SubSeq(arrs, 1, Len(arrs) - 1)
    /\ SvOutcome("pop_back", 0)

Resize ==
    /\ pc = "run"
    /\ \E count \in 0..SvMaxLen, value \in SvValues :
         /\ heap' = sv_resize(heap, count, value)
         /\ arrs' = vector_resize(arrs, count, value)
         /\ SvOutcome("resize", count)

Clear ==
    /\ pc = "run"
    /\ heap' = sv_clear(heap)
    /\ arrs' = <<>>
    /\ SvOutcome("clear", 0)

NextSmallVector == PushBack \/ PopBack \/ Resize \/ Clear

SpecSmallVector == InitSmallVector /\ [][NextSmallVector]_vars

\* C30: after any sequence of push_back, pop_back, resize and clear,
\* size() and the elements at [0, size) are those of the std::vector
\* given the same operations (so back() is the value pushed last),
\* is_small_ holds exactly when size <= N, and a conversion to the inline
\* form copies at most N elements.
C30_SmallVector ==
    pc = "run"
        => /\ heap.size_ = Len(arrs)
           /\ \A pos \in 0..(heap.size_ - 1) : sv_at(heap, pos) = arrs[pos + 1]
           /\ heap.is_small_ <=> heap.size_ <= SvN
           /\ last.copied <= SvN

====
